---- MODULE Spec2Model ----
(***************************************************************************)
(* Model of the CAL-KG extraction-and-fusion pipeline                      *)
(* (THU-YiZhang/Circuit_Knowdge_Graph, package SRC).                       *)
(*                                                                         *)
(* One specification per component:                                        *)
(*   SpecSplit  - DocumentSplitter.split_document                          *)
(*   SpecBatch  - SubLogicGenerator._extract_concurrent                    *)
(*   SpecPairs  - ConnectionAnalyzer._analyze_concurrent                   *)
(*   SpecFuse   - KnowledgeGraphFuser.fuse_knowledge_graphs                *)
(*   SpecPipeline - one run of the five stages over a readable document    *)
(*   SpecRule   - SubLogicGenerator._rule_based_extraction                 *)
(*   SpecMatch  - DocumentSplitter._match_toc_with_content                 *)
(*   SpecPools  - a run of the section pool or a run of the pair pool      *)
(*   SpecGen    - ConnectionAnalyzer._generate_node_pairs                  *)
(*   SpecSynth  - KnowledgeGraphFuser over sections of technologies and    *)
(*                applications, with edges named like the synthesized ones *)
(* Each specification leaves the variables of the components it does not   *)
(* run at their construction values.                                       *)
(***************************************************************************)
EXTENDS Integers, Sequences, FiniteSets, TLC

VARIABLES
    \* ---- DocumentSplitter ----
    lines,             \* the document, one line class per line
    split_pc,          \* "read" while the document is being supplied, "done" after split_document
    llm_response,      \* the reconciliation service's answer to this run
    matched_sections,  \* self.matched_sections
    sections_data,     \* what split_document returned: [method, sections]
    sections_file,     \* document_sections.json: [saved, sections]
    match_calls,       \* how often retry_on_failure ran _match_toc_with_content
    \* ---- SubLogicGenerator._extract_concurrent ----
    batch_sections,    \* the section numbers handed to _extract_concurrent
    workers,           \* self.workers, the width of the pool
    batch_pc,          \* "pool" inside the with-block, "returned" after the return
    fut,               \* per section: "queued", "running", "done" (future resolved), "collected"
    attempts,          \* per section: calls of the extraction method made so far
    raises,            \* per section: how many of those calls raised
    sleeps,            \* per section: time.sleep(1) calls made between attempts
    future_result,     \* per section: what process_single_section returned
    results,           \* the local list results of _extract_concurrent
    failed_sections,   \* self.failed_sections
    completed_tasks,   \* progress_tracker.completed_tasks
    failed_tasks,      \* progress_tracker.failed_tasks
    \* ---- ConnectionAnalyzer._analyze_concurrent ----
    node_pairs,        \* the node pairs handed to _analyze_concurrent
    bad_prompt,        \* per pair: a node's keywords/applications cannot be joined into the prompt
    pair_pc,           \* "pool" inside the with-block, "returned" after the return
    pair_fut,          \* per pair: "queued", "running", "done", "collected"
    pair_attempts,     \* per pair: turns of the retry loop of analyze_single_pair
    service_calls,     \* per pair: requests sent to the service
    pair_sleeps,       \* per pair: time.sleep calls made (either delay)
    pair_outcome,      \* per pair: how its last request to the service ended
    pair_result,       \* per pair: what analyze_single_pair returned
    connections,       \* the local list results of _analyze_concurrent
    failed_pairs,      \* self.failed_pairs
    \* ---- KnowledgeGraphFuser.fuse_knowledge_graphs ----
    main_logic_kg,     \* what _load_main_logic_kg returns (main_logic_kg.json)
    sub_logic_kgs,     \* what _load_sub_logic_kgs returns (sub_logic_summary.json)
    cross_connections, \* what _load_cross_connections returns
    fuse_pc,           \* "input" before the call, "done" after fuse_knowledge_graphs returned
    unified_kg,        \* the value fuse_knowledge_graphs returned
    unified_file,      \* unified_knowledge_graph.json as _save_unified_kg left it
    \* ---- a pipeline run ----
    pipe_pc,           \* the stage that runs next: "split", "main", "sub", "conn", "fuse", "done"
    document_sections, \* document_sections.json as the stages after the split see it
    section_outcome,   \* per section of the file: how its extraction calls ended in this run
    \* ---- SubLogicGenerator._rule_based_extraction ----
    rule_content,      \* the section content, as the paragraphs split('\n\n') gives
    rule_pc,           \* "input" before the call, "done" after it returned
    rule_analysis,     \* what _rule_based_extraction returned
    rule_kg,           \* the fragment _build_kg_from_analysis makes of it
    \* ---- DocumentSplitter._match_toc_with_content ----
    match_answer,      \* the "matches" list of the service's answer
    match_pc,          \* "answer" while the answer is built, "done" after the call
    reconciled,        \* self.matched_sections after the call
    \* ---- ConnectionAnalyzer._generate_node_pairs ----
    circuit_apps,      \* the circuit_application nodes collected from the fragments
    gen_pc,            \* "input" before the call, "done" after it returned
    generated_pairs    \* the list the call returned

splitVars == <<lines, split_pc, llm_response, matched_sections, sections_data, sections_file,
               match_calls>>

batchVars == <<batch_sections, workers, batch_pc, fut, attempts, raises, sleeps,
               future_result, results, failed_sections, completed_tasks, failed_tasks>>

\* the part of the batch state that only the section workload has
sectionVars == <<batch_sections, batch_pc, fut, attempts, raises, sleeps,
                 future_result, results, failed_sections>>

pairVars == <<node_pairs, bad_prompt, pair_pc, pair_fut, pair_attempts, service_calls,
              pair_sleeps, pair_outcome, pair_result, connections, failed_pairs>>

fuseVars == <<main_logic_kg, sub_logic_kgs, cross_connections, fuse_pc, unified_kg, unified_file>>

pipeVars == <<pipe_pc, document_sections, section_outcome>>

ruleVars == <<rule_content, rule_pc, rule_analysis, rule_kg>>

matchVars == <<match_answer, match_pc, reconciled>>

genVars == <<circuit_apps, gen_pc, generated_pairs>>

vars == <<splitVars, batchVars, pairVars, fuseVars, pipeVars, ruleVars, matchVars, genVars>>

(***************************************************************************)
(* Bounds                                                                  *)
(***************************************************************************)
MaxLines == 6
MaxMatches == 2
MaxSections == 2
MaxWorkers == 2
MaxPairs == 2
MaxItems == 3
MaxPipeSections == 2
MaxParagraphs == 2
MaxSynthItems == 5
MaxApps == 3

(***************************************************************************)
(* Section Matcher: document_splitter.py                                   *)
(*                                                                         *)
(* A line is represented by the class the splitter's regular expressions   *)
(* put it in:                                                              *)
(*   "blank"  - empty after strip()                                        *)
(*   "marker" - contains a TOC indicator ("Contents", ...), nothing else    *)
(*   "num"    - "1.1 Title": a TOC entry, a numbered body heading and a     *)
(*              simple-split heading                                        *)
(*   "hash"   - "# Title": a markdown heading                               *)
(*   "text"   - short body text matching no pattern                         *)
(***************************************************************************)
LineKinds == {"blank", "marker", "num", "hash", "text"}

\* line 189: the TOC ends only once more than this many entries were read
TocEndMinTitles == 3
\* line 201: estimated TOC end, this many lines after the last entry
TocEndSlack == 5

\* lines 152-159: the TOC entry patterns
IsTocEntry(k) == k = "num"

\* lines 191-194: a long line or a heading-like line ends the TOC
LooksLikeBody(k) == k = "hash"

\* lines 136-197: the scan loop of _extract_toc_titles; i is the 1-based line,
\* the result is [titles |-> <<line_num, ...>>, end |-> toc_end_line]
RECURSIVE TocScan(_, _, _, _)
TocScan(ls, i, in_toc, titles) ==
    IF i > Len(ls) THEN [titles |-> titles, end |-> 0]
    ELSE IF ls[i] = "blank" THEN TocScan(ls, i + 1, in_toc, titles)
    ELSE IF ~in_toc THEN TocScan(ls, i + 1, ls[i] = "marker", titles)
    ELSE IF IsTocEntry(ls[i]) THEN TocScan(ls, i + 1, TRUE, Append(titles, i))
    ELSE IF Len(titles) > TocEndMinTitles /\ LooksLikeBody(ls[i])
         THEN [titles |-> titles, end |-> i - 1]
    ELSE TocScan(ls, i + 1, TRUE, titles)

\* _extract_toc_titles
ExtractTocTitles(ls) ==
    LET r == TocScan(ls, 1, FALSE, <<>>)
    IN  IF r.end = 0 /\ r.titles # <<>>
        THEN [titles |-> r.titles, end |-> r.titles[Len(r.titles)] + TocEndSlack]
        ELSE r

\* lines 232, 258-263, 284-287: the three heading styles of the body
IsContentTitle(k) == k \in {"hash", "num"}

\* _extract_content_titles: the 1-based lines of the headings found in
\* range(start_line, len(lines))
RECURSIVE ContentScan(_, _)
ContentScan(ls, i) ==
    IF i > Len(ls) THEN <<>>
    ELSE IF IsContentTitle(ls[i]) THEN <<i>> \o ContentScan(ls, i + 1)
    ELSE ContentScan(ls, i + 1)

ExtractContentTitles(ls, start_line) == ContentScan(ls, start_line + 1)

(***************************************************************************)
(* The reconciliation service's answer to _call_llm_for_matching: "error"  *)
(* (transport error or unparseable text: the method returns None) or a     *)
(* list of match entries.  An entry is                                     *)
(*   kind "ok"      - all keys present, content_line_num an integer        *)
(*   kind "nokey"   - a required key is missing                            *)
(*   kind "badtype" - content_line_num is not an integer                   *)
(***************************************************************************)
MatchKinds == {"ok", "nokey", "badtype"}

\* list.sort(key=content_line_num), line 371: stable insertion
RECURSIVE InsertByLine(_, _)
InsertByLine(m, s) ==
    IF s = <<>> THEN <<m>>
    ELSE IF s[Len(s)].line <= m.line THEN Append(s, m)
    ELSE Append(InsertByLine(m, SubSeq(s, 1, Len(s) - 1)), s[Len(s)])

RECURSIVE SortFrom(_, _, _)
SortFrom(s, i, acc) ==
    IF i > Len(s) THEN acc ELSE SortFrom(s, i + 1, InsertByLine(s[i], acc))

UnsortedByLine(s) == s

SortByLine(s) == SortFrom(s, 1, <<>>)

\* the confidence of an entry, in tenths: <<>> when the entry has none
Confidences == {<<>>, <<4>>, <<5>>, <<10>>}

\* line 364: match.get('confidence', 0.0)
GetConfidence(match) == IF match.confidence = <<>> THEN <<0>> ELSE match.confidence

\* lines 356-368: entries with a missing key are skipped, the others are
\* copied with their confidence
RECURSIVE KeepParsable(_)
KeepParsable(s) ==
    IF s = <<>> THEN <<>>
    ELSE IF s[1].kind = "nokey" THEN KeepParsable(Tail(s))
    ELSE <<[s[1] EXCEPT !.confidence = GetConfidence(s[1])]>> \o KeepParsable(Tail(s))

\* _match_toc_with_content, given the service's answer: the value assigned to
\* self.matched_sections.  A non-integer line number raises in sort() or in
\* the ":4d" print (line 380); the except clause then returns [] and
\* self.matched_sections keeps its initial [].
MatchTocWithContent(toc_titles, content_titles, resp) ==
    IF toc_titles = <<>> \/ content_titles = <<>> THEN <<>>
    ELSE IF resp.error THEN <<>>
    ELSE LET kept == KeepParsable(resp.matches)
         IN  IF \E i \in 1..Len(kept) : kept[i].kind = "badtype" THEN <<>>
             ELSE SortByLine(kept)

\* lines 497-502: the non-blank lines of range(start_line, end_line), 0-based
\* idx; a negative index reads from the end of the list as Python does
RECURSIVE ContentLines(_, _, _)
ContentLines(ls, idx, end_line) ==
    IF idx >= end_line THEN <<>>
    ELSE LET pos == IF idx < 0 THEN Len(ls) + idx + 1 ELSE idx + 1
             here == IF idx < Len(ls) /\ pos >= 1 /\ ls[pos] # "blank"
                     THEN <<pos>> ELSE <<>>
         IN  here \o ContentLines(ls, idx + 1, end_line)

\* _split_content_by_sections
SplitContentBySections(ls, matched) ==
    [i \in 1..Len(matched) |->
        LET start_line == matched[i].line - 1
            end_line == IF i < Len(matched) THEN matched[i + 1].line - 1 ELSE Len(ls)
        IN  [section_num |-> i,
             start_line |-> start_line + 1,
             end_line |-> end_line,
             content |-> ContentLines(ls, start_line, end_line)]]

\* lines 497-499: lines[line_idx] raises IndexError when line_idx is below
\* -len(lines); line_idx < len(lines) is the only test made before the read
SpanRaises(ls, matched) ==
    \E i \in 1..Len(matched) :
        LET start_line == matched[i].line - 1
            end_line == IF i < Len(matched) THEN matched[i + 1].line - 1 ELSE Len(ls)
        IN  start_line < end_line /\ start_line < -Len(ls)

\* line 558: the two heading patterns of the simple split
IsSimpleHeading(k) == k \in {"hash", "num"}

\* _simple_split_fallback, lines 554-586; cur = <<>> stands for
\* current_section = None, count is section_count
RECURSIVE SimpleScan(_, _, _, _, _)
SimpleScan(ls, i, cur, count, acc) ==
    LET flushed == IF cur # <<>> /\ cur[1].content # <<>> THEN Append(acc, cur[1]) ELSE acc
    IN  IF i > Len(ls) THEN flushed
        ELSE IF IsSimpleHeading(ls[i])
             THEN SimpleScan(ls, i + 1,
                             <<[section_num |-> count, start_line |-> i,
                                end_line |-> i, content |-> <<>>]>>,
                             count + 1, flushed)
        ELSE IF cur # <<>> /\ ls[i] # "blank"
             THEN SimpleScan(ls, i + 1,
                             <<[cur[1] EXCEPT !.content = Append(@, i)]>>, count, acc)
        ELSE SimpleScan(ls, i + 1, cur, count, acc)

SimpleSplitFallback(ls) == SimpleScan(ls, 1, <<>>, 1, <<>>)

NoFile == [saved |-> FALSE, sections |-> <<>>]

\* split_document as a function of the document and the service's answer:
\* [method, matched, sections, file]
SplitResult(ls, resp) ==
    LET toc == ExtractTocTitles(ls)
        content_titles == ExtractContentTitles(ls, toc.end)
        matched == MatchTocWithContent(toc.titles, content_titles, resp)
        simple == [method |-> "simple", matched |-> <<>>,
                   sections |-> SimpleSplitFallback(ls), file |-> NoFile]
    IN  IF ls = <<>>
        THEN [method |-> "empty", matched |-> <<>>, sections |-> <<>>, file |-> NoFile]
        ELSE IF toc.titles = <<>> THEN simple
        ELSE IF content_titles = <<>> THEN simple
        ELSE IF matched = <<>> THEN simple
        ELSE IF SpanRaises(ls, matched)
        THEN [method |-> "empty", matched |-> matched, sections |-> <<>>, file |-> NoFile]
        ELSE LET secs == SplitContentBySections(ls, matched)
             IN  [method |-> "toc", matched |-> matched, sections |-> secs,
                  file |-> [saved |-> TRUE, sections |-> secs]]

\* The line numbers the service may name: any line of the document, one
\* before and one past it, and a negative one as far from 0 as the document
\* is long
MatchEntries(ls) ==
    [kind : {"ok"}, line : (0..(Len(ls) + 1)) \cup {-Len(ls)}, confidence : {<<10>>}]
        \cup [kind : {"nokey", "badtype"}, line : {0}, confidence : {<<10>>}]

NotAsked == [error |-> TRUE, matches |-> <<>>]

RECURSIVE SeqsUpTo(_, _)
SeqsUpTo(S, n) ==
    IF n = 0 THEN {<<>>}
    ELSE LET shorter == SeqsUpTo(S, n - 1)
         IN  shorter \cup {Append(s, x) : s \in {t \in shorter : Len(t) = n - 1}, x \in S}

\* lines 70-81: the service is called only when a TOC and body headings were found
CallsService(ls) ==
    LET toc == ExtractTocTitles(ls)
    IN  toc.titles # <<>> /\ ExtractContentTitles(ls, toc.end) # <<>>

Responses(ls) ==
    IF CallsService(ls)
    THEN {[error |-> TRUE, matches |-> <<>>]}
            \cup {[error |-> FALSE, matches |-> m] : m \in SeqsUpTo(MatchEntries(ls), MaxMatches)}
    ELSE {NotAsked}

\* @retry_on_failure(max_retries=3, delay=2.0), line 319
MatchMaxRetries == 3

\* whether _match_toc_with_content raises to its decorator: a failed request
\* is caught in _call_llm_for_matching, which returns None (lines 455-457),
\* and anything raised after that is caught by the except clause of lines
\* 385-388, which returns []
MatchRaises(resp) == FALSE

\* retry_on_failure, utils.py lines 207-221: the wrapper returns what the
\* first call returns, and calls again only after a call has raised, at most
\* max_retries times; here for a call that ends the same way every time
RetryCalls(raised, max_retries) == IF raised THEN max_retries ELSE 1

SplitInit ==
    /\ lines = <<>>
    /\ split_pc = "read"
    /\ llm_response = NotAsked
    /\ matched_sections = <<>>
    /\ sections_data = [method |-> "none", sections |-> <<>>]
    /\ sections_file = NoFile
    /\ match_calls = 0

\* _read_input_file, one line at a time
ReadLine(k) ==
    /\ split_pc = "read"
    /\ Len(lines) < MaxLines
    /\ lines' = Append(lines, k)
    /\ UNCHANGED <<split_pc, llm_response, matched_sections, sections_data, sections_file,
                   match_calls>>

\* split_document on a readable document, with the answer resp of the service
SplitDocument(resp) ==
    /\ split_pc = "read"
    /\ Len(lines) >= 1
    /\ LET r == SplitResult(lines, resp)
       IN  /\ matched_sections' = r.matched
           /\ sections_data' = [method |-> r.method, sections |-> r.sections]
           /\ sections_file' = r.file
    /\ llm_response' = resp
    /\ match_calls' = IF CallsService(lines)
                      THEN RetryCalls(MatchRaises(resp), MatchMaxRetries)
                      ELSE 0
    /\ split_pc' = "done"
    /\ UNCHANGED lines

(***************************************************************************)
(* Extraction Orchestrator, section workload: sub_logic_generator.py       *)
(***************************************************************************)
\* self.max_retries, line 29
MaxRetries == 3

(***************************************************************************)
(* What one call of _call_deepseek_with_cot_triplet_extraction does, seen  *)
(* from process_single_section:                                            *)
(*   "raise"     - the call raises                                         *)
(*   "empty"     - it returns an empty (falsy) analysis                    *)
(*   "ok"        - it returns a non-empty analysis of the requested shape  *)
(*   "malformed" - it returns a non-empty analysis that is not of the      *)
(*                 requested shape (json.loads gave a list, or a tier is   *)
(*                 null or holds strings), on which _build_kg_from_analysis*)
(*                 raises internally                                       *)
(***************************************************************************)
CallOutcomes == {"raise", "empty", "ok", "malformed"}

NoResult == [success |-> FALSE, analysis |-> "none"]

\* line 157: for attempt in range(self.max_retries)
ExhaustedEarly(a) == a >= MaxRetries - 1

Exhausted(a) == a >= MaxRetries

\* _build_kg_from_analysis, lines 367-450: the fragment, or {} (here <<>>)
\* when the analysis cannot be walked
BuildKgFromAnalysis(analysis, section_num) ==
    IF analysis = "ok" THEN <<[section_num |-> section_num]>> ELSE <<>>

\* ProgressTracker.update(completed=1, failed=0), utils.py lines 73-78, as the
\* two callers invoke it: without arguments
ProgressUpdate(done, failed) == [completed_tasks |-> done + 1, failed_tasks |-> failed + 0]

Running == {t \in DOMAIN fut : fut[t] = "running"}

Queued == {t \in DOMAIN fut : fut[t] = "queued"}

BatchInit ==
    /\ batch_sections \in {[i \in 1..n |-> i] : n \in 0..MaxSections}
    /\ workers \in 1..MaxWorkers
    /\ batch_pc = "pool"
    /\ fut = [t \in 1..Len(batch_sections) |-> "queued"]
    /\ attempts = [t \in 1..Len(batch_sections) |-> 0]
    /\ raises = [t \in 1..Len(batch_sections) |-> 0]
    /\ sleeps = [t \in 1..Len(batch_sections) |-> 0]
    /\ future_result = [t \in 1..Len(batch_sections) |-> NoResult]
    /\ results = <<>>
    /\ failed_sections = <<>>
    /\ completed_tasks = 0
    /\ failed_tasks = 0

\* ThreadPoolExecutor: a free worker takes the oldest submitted task
StartSection(t) ==
    /\ batch_pc = "pool"
    /\ fut[t] = "queued"
    /\ \A u \in Queued : t <= u
    /\ Cardinality(Running) < workers
    /\ fut' = [fut EXCEPT ![t] = "running"]
    /\ UNCHANGED <<batch_sections, workers, batch_pc, attempts, raises, sleeps,
                   future_result, results, failed_sections, completed_tasks, failed_tasks>>

\* process_single_section, one turn of its retry loop (lines 157-174) with
\* outcome o of the extraction call
AttemptSection(t, o) ==
    /\ batch_pc = "pool"
    /\ fut[t] = "running"
    /\ attempts' = [attempts EXCEPT ![t] = @ + 1]
    /\ raises' = [raises EXCEPT ![t] = IF o = "raise" THEN @ + 1 ELSE @]
    /\ sleeps' = [sleeps EXCEPT ![t] =
                    IF o = "raise" /\ attempts[t] < MaxRetries - 1 THEN @ + 1 ELSE @]
    /\ IF o \in {"ok", "malformed"}
       THEN /\ future_result' = [future_result EXCEPT ![t] = [success |-> TRUE, analysis |-> o]]
            /\ fut' = [fut EXCEPT ![t] = "done"]
       ELSE IF Exhausted(attempts[t] + 1)
       THEN /\ future_result' = [future_result EXCEPT ![t] = NoResult]
            /\ fut' = [fut EXCEPT ![t] = "done"]
       ELSE UNCHANGED <<future_result, fut>>
    /\ UNCHANGED <<batch_sections, workers, batch_pc, results, failed_sections,
                   completed_tasks, failed_tasks>>

\* a collection whose appends depend on the schedule: an append made while
\* another task is still running is lost
RacyCollectSection(t) ==
    /\ batch_pc = "pool"
    /\ fut[t] = "done"
    /\ LET r == future_result[t]
           p == ProgressUpdate(completed_tasks, failed_tasks)
           kept == Running = {}
       IN  /\ IF r.success /\ r.analysis # "none"
              THEN /\ results' = IF kept
                                 THEN results \o BuildKgFromAnalysis(r.analysis, batch_sections[t])
                                 ELSE results
                   /\ UNCHANGED failed_sections
              ELSE /\ failed_sections' = IF kept THEN Append(failed_sections, batch_sections[t])
                                                ELSE failed_sections
                   /\ UNCHANGED results
           /\ completed_tasks' = p.completed_tasks
           /\ failed_tasks' = p.failed_tasks
    /\ fut' = [fut EXCEPT ![t] = "collected"]
    /\ UNCHANGED <<batch_sections, workers, batch_pc, attempts, raises, sleeps, future_result>>

\* one turn of the as_completed loop, lines 113-131
CollectSection(t) ==
    /\ batch_pc = "pool"
    /\ fut[t] = "done"
    /\ LET r == future_result[t]
           p == ProgressUpdate(completed_tasks, failed_tasks)
       IN  /\ IF r.success /\ r.analysis # "none"
              THEN /\ results' = results \o BuildKgFromAnalysis(r.analysis, batch_sections[t])
                   /\ UNCHANGED failed_sections
              ELSE /\ failed_sections' = Append(failed_sections, batch_sections[t])
                   /\ UNCHANGED results
           /\ completed_tasks' = p.completed_tasks
           /\ failed_tasks' = p.failed_tasks
    /\ fut' = [fut EXCEPT ![t] = "collected"]
    /\ UNCHANGED <<batch_sections, workers, batch_pc, attempts, raises, sleeps, future_result>>

\* a return that waits only until every task was taken by a worker
EarlyBatchReturn ==
    /\ batch_pc = "pool"
    /\ Queued = {}
    /\ batch_pc' = "returned"
    /\ UNCHANGED <<batch_sections, workers, fut, attempts, raises, sleeps, future_result,
                   results, failed_sections, completed_tasks, failed_tasks>>

\* the with-block ends and _extract_concurrent returns results, lines 139-147
BatchReturn ==
    /\ batch_pc = "pool"
    /\ \A t \in DOMAIN fut : fut[t] = "collected"
    /\ batch_pc' = "returned"
    /\ UNCHANGED <<batch_sections, workers, fut, attempts, raises, sleeps, future_result,
                   results, failed_sections, completed_tasks, failed_tasks>>

BatchIdle ==
    /\ batch_sections = <<>> /\ workers = 1 /\ batch_pc = "pool"
    /\ fut = <<>> /\ attempts = <<>> /\ raises = <<>> /\ sleeps = <<>>
    /\ future_result = <<>> /\ results = <<>> /\ failed_sections = <<>>
    /\ completed_tasks = 0 /\ failed_tasks = 0

(***************************************************************************)
(* Extraction Orchestrator, pair workload: connection_analyzer.py          *)
(***************************************************************************)
\* self.max_retries, line 29
PairMaxRetries == 3
\* @retry_on_failure(max_retries=3, delay=1.0), line 218
CallMaxRetries == 3

(***************************************************************************)
(* How one request of _call_deepseek_for_connection_analysis ends:         *)
(*   "transport"     - chat.completions.create raises                      *)
(*   "unparseable"   - the answer is not JSON (JSONDecodeError)             *)
(*   "no_connection" - parsed, has_connection false                        *)
(*   "connection"    - parsed, has_connection true                         *)
(* "none": no request was sent.                                            *)
(***************************************************************************)
ServiceOutcomes == {"transport", "unparseable", "no_connection", "connection"}

NoConnection == [raised |-> FALSE, connection |-> FALSE]

\* the body of _call_deepseek_for_connection_analysis after the prompt is
\* built, lines 272-309: the connection_data it returns; both except clauses
\* return {}
ConnectionData(o) ==
    [empty |-> o \in {"transport", "unparseable"}, has_connection |-> o = "connection"]

\* analyze_single_pair, lines 207-210, on the value the call returned: the
\* connection is returned when it is non-empty and has_connection, None
\* otherwise; either way the method returns in this turn of the loop
ReturnsConnection(data) == ~data.empty /\ data.has_connection

PairsRunning == {q \in DOMAIN pair_fut : pair_fut[q] = "running"}

PairsQueued == {q \in DOMAIN pair_fut : pair_fut[q] = "queued"}

PairInit ==
    /\ node_pairs \in {[i \in 1..n |-> i] : n \in 0..MaxPairs}
    /\ bad_prompt \in [1..Len(node_pairs) -> BOOLEAN]
    /\ pair_pc = "pool"
    /\ pair_fut = [q \in 1..Len(node_pairs) |-> "queued"]
    /\ pair_attempts = [q \in 1..Len(node_pairs) |-> 0]
    /\ service_calls = [q \in 1..Len(node_pairs) |-> 0]
    /\ pair_sleeps = [q \in 1..Len(node_pairs) |-> 0]
    /\ pair_outcome = [q \in 1..Len(node_pairs) |-> "none"]
    /\ pair_result = [q \in 1..Len(node_pairs) |-> NoConnection]
    /\ connections = <<>>
    /\ failed_pairs = <<>>

PairIdle ==
    /\ node_pairs = <<>> /\ bad_prompt = <<>> /\ pair_pc = "pool"
    /\ pair_fut = <<>> /\ pair_attempts = <<>> /\ service_calls = <<>>
    /\ pair_sleeps = <<>> /\ pair_outcome = <<>> /\ pair_result = <<>>
    /\ connections = <<>> /\ failed_pairs = <<>>

\* the progress tracker and the pool as _analyze_concurrent sets them up
PoolInit == workers \in 1..MaxWorkers /\ completed_tasks = 0 /\ failed_tasks = 0

\* ThreadPoolExecutor: a free worker takes the oldest submitted pair
StartPair(q) ==
    /\ pair_pc = "pool"
    /\ pair_fut[q] = "queued"
    /\ \A u \in PairsQueued : q <= u
    /\ Cardinality(PairsRunning) < workers
    /\ pair_fut' = [pair_fut EXCEPT ![q] = "running"]
    /\ UNCHANGED <<node_pairs, bad_prompt, pair_pc, pair_attempts, service_calls, pair_sleeps,
                   pair_outcome, pair_result, connections, failed_pairs,
                   workers, completed_tasks, failed_tasks>>

\* analyze_single_pair, one turn of its loop (lines 203-214), for a pair whose
\* prompt can be built: one request with outcome o, and the method returns
AnalyzePair(q, o) ==
    /\ pair_pc = "pool"
    /\ pair_fut[q] = "running"
    /\ ~bad_prompt[q]
    /\ pair_attempts' = [pair_attempts EXCEPT ![q] = @ + 1]
    /\ service_calls' = [service_calls EXCEPT ![q] = @ + 1]
    /\ pair_outcome' = [pair_outcome EXCEPT ![q] = o]
    /\ pair_result' = [pair_result EXCEPT ![q] =
                         [raised |-> FALSE, connection |-> ReturnsConnection(ConnectionData(o))]]
    /\ pair_fut' = [pair_fut EXCEPT ![q] = "done"]
    /\ UNCHANGED <<node_pairs, bad_prompt, pair_pc, pair_sleeps, connections, failed_pairs,
                   workers, completed_tasks, failed_tasks>>

\* analyze_single_pair, one turn of its loop for a pair whose prompt cannot be
\* built (lines 222-238 raise outside the try): retry_on_failure calls the
\* method CallMaxRetries times, sleeping between the calls, and re-raises; the
\* loop catches it, sleeps unless this was the last turn, and returns None
\* after the last turn
AnalyzePairPromptError(q) ==
    /\ pair_pc = "pool"
    /\ pair_fut[q] = "running"
    /\ bad_prompt[q]
    /\ pair_attempts' = [pair_attempts EXCEPT ![q] = @ + 1]
    /\ pair_sleeps' = [pair_sleeps EXCEPT ![q] =
                         @ + (CallMaxRetries - 1)
                           + (IF pair_attempts[q] < PairMaxRetries - 1 THEN 1 ELSE 0)]
    /\ IF pair_attempts[q] + 1 >= PairMaxRetries
       THEN /\ pair_result' = [pair_result EXCEPT ![q] = NoConnection]
            /\ pair_fut' = [pair_fut EXCEPT ![q] = "done"]
       ELSE UNCHANGED <<pair_result, pair_fut>>
    /\ UNCHANGED <<node_pairs, bad_prompt, pair_pc, service_calls, pair_outcome, connections,
                   failed_pairs, workers, completed_tasks, failed_tasks>>

\* one turn of the as_completed loop, lines 173-188
CollectPair(q) ==
    /\ pair_pc = "pool"
    /\ pair_fut[q] = "done"
    /\ LET r == pair_result[q]
           p == ProgressUpdate(completed_tasks, failed_tasks)
       IN  /\ IF r.raised
              THEN /\ failed_pairs' = Append(failed_pairs, node_pairs[q])
                   /\ UNCHANGED connections
              ELSE /\ connections' = IF r.connection THEN Append(connections, node_pairs[q])
                                                     ELSE connections
                   /\ UNCHANGED failed_pairs
           /\ completed_tasks' = p.completed_tasks
           /\ failed_tasks' = p.failed_tasks
    /\ pair_fut' = [pair_fut EXCEPT ![q] = "collected"]
    /\ UNCHANGED <<node_pairs, bad_prompt, pair_pc, pair_attempts, service_calls, pair_sleeps,
                   pair_outcome, pair_result, workers>>

\* the with-block ends and _analyze_concurrent returns results, lines 190-196
PairsReturn ==
    /\ pair_pc = "pool"
    /\ \A q \in DOMAIN pair_fut : pair_fut[q] = "collected"
    /\ pair_pc' = "returned"
    /\ UNCHANGED <<node_pairs, bad_prompt, pair_fut, pair_attempts, service_calls, pair_sleeps,
                   pair_outcome, pair_result, connections, failed_pairs,
                   workers, completed_tasks, failed_tasks>>

(***************************************************************************)
(* Graph Fusion Engine: knowledge_graph_fuser.py                           *)
(*                                                                         *)
(* A section number is the sequence of its characters, so that the prefix  *)
(* test of _find_main_logic_node_for_section is computed, not assumed.     *)
(* Keyword lists are the sets the code turns them into.  Weights are in    *)
(* tenths.                                                                 *)
(***************************************************************************)
Ids == {"a", "b"}
MainSectionNums == {<<"1">>, <<"1", "1">>}
SubSectionNums == {<<"1">>, <<"1", ".", "1">>}
NodeTypes == {"basic_concept", "core_technology", "circuit_application"}
KeywordSets == {{}, {"A", "B"}, {"B", "C"}}
Relationships == {"r"}

MainNodes == [id : Ids, section_num : MainSectionNums]
SubNodes == [id : Ids, node_type : NodeTypes, keywords : KeywordSets]
InputEdges == [source_id : Ids, target_id : Ids, relationship : Relationships]
Connections == [has_connection : BOOLEAN, source_id : Ids, target_id : Ids]

\* edge.get('weight', 0.5) / conn.get('connection_strength', 0.5)
DefaultWeight == 5

RECURSIVE ConcatAll(_)
ConcatAll(ss) == IF ss = <<>> THEN <<>> ELSE Head(ss) \o ConcatAll(Tail(ss))

\* the pairs a nested loop "for x in A: for y in B" visits, in its order
SeqPairs(A, B) ==
    [k \in 1..(Len(A) * Len(B)) |-> <<A[((k - 1) \div Len(B)) + 1], B[((k - 1) % Len(B)) + 1]>>]

StartsWith(str, prefix) ==
    Len(prefix) <= Len(str) /\ SubSeq(str, 1, Len(prefix)) = prefix

\* section_num.split('.')[0] if '.' in section_num else section_num
SectionPrefix(section_num) ==
    LET dots == {i \in 1..Len(section_num) : section_num[i] = "."}
    IN  IF dots = {} THEN section_num
        ELSE SubSeq(section_num, 1, (CHOOSE i \in dots : \A j \in dots : i <= j) - 1)

\* _find_main_logic_node_for_section: the first exact match, else the first
\* node whose section number starts with the prefix, else None
FindMainLogicNodeForSection(main_logic_nodes, section_num) ==
    LET exact == {i \in 1..Len(main_logic_nodes) : main_logic_nodes[i].section_num = section_num}
        fuzzy == {i \in 1..Len(main_logic_nodes) :
                     StartsWith(main_logic_nodes[i].section_num, SectionPrefix(section_num))}
        First(S) == CHOOSE i \in S : \A j \in S : i <= j
    IN  IF exact # {} THEN [found |-> TRUE, node |-> main_logic_nodes[First(exact)]]
        ELSE IF fuzzy # {} THEN [found |-> TRUE, node |-> main_logic_nodes[First(fuzzy)]]
        ELSE [found |-> FALSE]

\* a mapping that puts every node on level 1
FlatLevel(node_type) == 1

GetNodeLevel(node_type) ==
    CASE node_type = "main_logic" -> 0
      [] node_type = "basic_concept" -> 1
      [] node_type = "core_technology" -> 2
      [] node_type = "circuit_application" -> 3
      [] OTHER -> 1

\* _has_keyword_similarity with threshold num/den: |k1 & k2| / |k1 | k2| >= num/den
HasKeywordSimilarityAt(node1, node2, num, den) ==
    LET keywords1 == node1.keywords
        keywords2 == node2.keywords
    IN  IF keywords1 = {} \/ keywords2 = {} THEN FALSE
        ELSE Cardinality(keywords1 \cap keywords2) * den >= num * Cardinality(keywords1 \cup keywords2)

\* threshold 0.2
HasKeywordSimilarity(node1, node2) == HasKeywordSimilarityAt(node1, node2, 1, 5)

\* a strong test that asks for no more than the plain one
PlainKeywordSimilarity(node1, node2) == HasKeywordSimilarityAt(node1, node2, 1, 5)

\* threshold 0.4
HasStrongKeywordSimilarity(node1, node2) == HasKeywordSimilarityAt(node1, node2, 2, 5)

UnifiedMainNode(node) ==
    [id |-> node.id, node_type |-> "main_logic", section_num |-> node.section_num,
     keywords |-> {}, level |-> 0, source |-> "main_logic"]

UnifiedSubNode(node, section_num) ==
    [id |-> node.id, node_type |-> node.node_type, section_num |-> section_num,
     keywords |-> node.keywords, level |-> GetNodeLevel(node.node_type), source |-> "sub_logic"]

UnifiedEdge(source_id, target_id, relationship, weight, bidirectional, edge_type, source) ==
    [source_id |-> source_id, target_id |-> target_id, relationship |-> relationship,
     weight |-> weight, bidirectional |-> bidirectional, edge_type |-> edge_type,
     source |-> source]

OfType(nodes, node_type) == SelectSeq(nodes, LAMBDA n : n.node_type = node_type)

\* the edges one loop of _build_hierarchical_connections appends; strong
\* tells which of the two similarity tests the loop uses
SimilarPairsEdges(from, to, strong, relationship, weight) ==
    LET hits == SelectSeq(SeqPairs(from, to),
                          LAMBDA p : IF strong THEN HasStrongKeywordSimilarity(p[1], p[2])
                                               ELSE HasKeywordSimilarity(p[1], p[2]))
    IN  [k \in 1..Len(hits) |->
            UnifiedEdge(hits[k][1].id, hits[k][2].id, relationship, weight, FALSE,
                        "hierarchical", "hierarchical_connection")]

\* _build_hierarchical_connections, lines 338-389
BuildHierarchicalConnections(section_nodes) ==
    LET basic_concepts == OfType(section_nodes, "basic_concept")
        core_technologies == OfType(section_nodes, "core_technology")
        circuit_applications == OfType(section_nodes, "circuit_application")
    IN  SimilarPairsEdges(basic_concepts, core_technologies, FALSE, "enables", 7)
        \o SimilarPairsEdges(core_technologies, circuit_applications, FALSE, "implements", 8)
        \o SimilarPairsEdges(basic_concepts, circuit_applications, TRUE, "supports", 6)

\* _fuse_graphs, lines 222-237: the contains_application edges of one fragment
ContainsApplicationEdges(main_logic_nodes, section_nodes, section_num) ==
    LET main_node == FindMainLogicNodeForSection(main_logic_nodes, section_num)
        apps == OfType(section_nodes, "circuit_application")
    IN  IF main_node.found
        THEN [k \in 1..Len(apps) |->
                 UnifiedEdge(main_node.node.id, apps[k].id, "contains_application", 9, FALSE,
                             "main_to_sub", "hierarchical_connection")]
        ELSE <<>>

\* a network that joins every two applications of different ids
AllApplicationPairs(circuit_applications) ==
    LET hits == SelectSeq(SeqPairs(circuit_applications, circuit_applications),
                          LAMBDA p : p[1].id # p[2].id)
    IN  [k \in 1..Len(hits) |->
            UnifiedEdge(hits[k][1].id, hits[k][2].id, "relates_to_application", 5, TRUE,
                        "application_network", "application_connection")]

\* _build_circuit_application_connections, lines 391-414
BuildCircuitApplicationConnections(circuit_applications) ==
    LET hits == SelectSeq(SeqPairs(circuit_applications, circuit_applications),
                          LAMBDA p : /\ p[1].id # p[2].id
                                     /\ p[1].section_num # p[2].section_num
                                     /\ HasKeywordSimilarity(p[1], p[2]))
    IN  [k \in 1..Len(hits) |->
            UnifiedEdge(hits[k][1].id, hits[k][2].id, "relates_to_application", 5, TRUE,
                        "application_network", "application_connection")]

CountOfType(nodes, node_type) == Len(OfType(nodes, node_type))

\* _fuse_graphs, lines 135-310
FuseGraphs(main, subs, conns) ==
    LET main_logic_nodes == [i \in 1..Len(main.nodes) |-> UnifiedMainNode(main.nodes[i])]
        main_edges == [i \in 1..Len(main.edges) |->
                          UnifiedEdge(main.edges[i].source_id, main.edges[i].target_id,
                                      main.edges[i].relationship, DefaultWeight, FALSE,
                                      "main_logic", "main_logic")]
        SectionNodes(kg) == [j \in 1..Len(kg.nodes) |-> UnifiedSubNode(kg.nodes[j], kg.section_num)]
        sub_nodes == ConcatAll([k \in 1..Len(subs) |-> SectionNodes(subs[k])])
        synthesized == ConcatAll([k \in 1..Len(subs) |->
                          ContainsApplicationEdges(main_logic_nodes, SectionNodes(subs[k]),
                                                   subs[k].section_num)
                          \o BuildHierarchicalConnections(SectionNodes(subs[k]))])
        sub_edges == ConcatAll([k \in 1..Len(subs) |->
                          [j \in 1..Len(subs[k].edges) |->
                              UnifiedEdge(subs[k].edges[j].source_id, subs[k].edges[j].target_id,
                                          subs[k].edges[j].relationship, DefaultWeight, FALSE,
                                          "intra_section", "sub_logic")]])
        app_edges == BuildCircuitApplicationConnections(OfType(sub_nodes, "circuit_application"))
        kept == SelectSeq(conns, LAMBDA c : c.has_connection)
        conn_edges == [i \in 1..Len(kept) |->
                          UnifiedEdge(kept[i].source_id, kept[i].target_id, "r", DefaultWeight,
                                      FALSE, "inter_section", "cross_connection")]
        unified_nodes == main_logic_nodes \o sub_nodes
        unified_edges == main_edges \o synthesized \o sub_edges \o app_edges \o conn_edges
    IN  [produced |-> TRUE,
         nodes |-> unified_nodes,
         edges |-> unified_edges,
         statistics |->
            [total_nodes |-> Len(unified_nodes),
             total_edges |-> Len(unified_edges),
             main_logic_nodes |-> CountOfType(unified_nodes, "main_logic"),
             basic_concept_nodes |-> CountOfType(unified_nodes, "basic_concept"),
             core_technology_nodes |-> CountOfType(unified_nodes, "core_technology"),
             circuit_application_nodes |-> CountOfType(unified_nodes, "circuit_application"),
             cross_section_edges |->
                 Len(SelectSeq(unified_edges, LAMBDA e : e.edge_type = "inter_section"))]]

EdgeKey(edge) == <<edge.source_id, edge.target_id, edge.relationship>>

Reverse(seq) == [i \in 1..Len(seq) |-> seq[Len(seq) + 1 - i]]

\* the node loop of _optimize_unified_kg, lines 439-444
RECURSIVE DedupNodes(_, _, _, _)
DedupNodes(nodes, i, seen_node_ids, unique_nodes) ==
    IF i > Len(nodes) THEN unique_nodes
    ELSE IF nodes[i].id \notin seen_node_ids
         THEN DedupNodes(nodes, i + 1, seen_node_ids \cup {nodes[i].id},
                         Append(unique_nodes, nodes[i]))
         ELSE DedupNodes(nodes, i + 1, seen_node_ids, unique_nodes)

\* the edge loop of _optimize_unified_kg, lines 447-453
RECURSIVE DedupEdges(_, _, _, _)
DedupEdges(edges, i, seen_edges, unique_edges) ==
    IF i > Len(edges) THEN unique_edges
    ELSE IF EdgeKey(edges[i]) \notin seen_edges
         THEN DedupEdges(edges, i + 1, seen_edges \cup {EdgeKey(edges[i])},
                         Append(unique_edges, edges[i]))
         ELSE DedupEdges(edges, i + 1, seen_edges, unique_edges)

\* a dedup that keeps the last occurrence of every id
LastNodes(nodes) == Reverse(DedupNodes(Reverse(nodes), 1, {}, <<>>))

UniqueNodes(nodes) == DedupNodes(nodes, 1, {}, <<>>)

\* a dedup that returns the surviving edges last first
\* a dedup that keeps the last edge of every key
LastEdges(edges) == Reverse(DedupEdges(Reverse(edges), 1, {}, <<>>))

ReversedUniqueEdges(edges) == Reverse(DedupEdges(edges, 1, {}, <<>>))

UniqueEdges(edges) == DedupEdges(edges, 1, {}, <<>>)

\* _optimize_unified_kg, lines 434-465: only the two totals are written again
OptimizeUnifiedKg(kg) ==
    LET unique_nodes == UniqueNodes(kg.nodes)
        unique_edges == UniqueEdges(kg.edges)
    IN  [kg EXCEPT !.nodes = unique_nodes,
                   !.edges = unique_edges,
                   !.statistics.total_nodes = Len(unique_nodes),
                   !.statistics.total_edges = Len(unique_edges)]

\* the {} that fuse_knowledge_graphs returns when an input cannot be loaded
NoGraph == [produced |-> FALSE, nodes |-> <<>>, edges |-> <<>>]

NoMainLogic == [loaded |-> FALSE, nodes |-> <<>>, edges |-> <<>>]

\* fuse_knowledge_graphs, lines 42-73, as a function of what the loaders return
FuseResult(main, subs, conns) ==
    IF ~main.loaded THEN NoGraph
    ELSE IF subs = <<>> THEN NoGraph
    ELSE OptimizeUnifiedKg(FuseGraphs(main, subs, conns))

Items ==
    Len(main_logic_kg.nodes) + Len(main_logic_kg.edges) + Len(sub_logic_kgs)
    + Len(ConcatAll([k \in 1..Len(sub_logic_kgs) |-> sub_logic_kgs[k].nodes]))
    + Len(ConcatAll([k \in 1..Len(sub_logic_kgs) |-> sub_logic_kgs[k].edges]))
    + Len(cross_connections)

FuseInit ==
    /\ main_logic_kg \in {NoMainLogic, [loaded |-> TRUE, nodes |-> <<>>, edges |-> <<>>]}
    /\ sub_logic_kgs = <<>>
    /\ cross_connections = <<>>
    /\ fuse_pc = "input"
    /\ unified_kg = NoGraph
    /\ unified_file = NoGraph

FuseIdle ==
    /\ main_logic_kg = NoMainLogic /\ sub_logic_kgs = <<>> /\ cross_connections = <<>>
    /\ fuse_pc = "input" /\ unified_kg = NoGraph /\ unified_file = NoGraph

(***************************************************************************)
(* The interchange documents the fuser reads, written list by list: the    *)
(* main-logic nodes, its edges, then each fragment (its nodes, its edges), *)
(* then the connections.                                                   *)
(***************************************************************************)
AddMainNode(node) ==
    /\ fuse_pc = "input" /\ Items < MaxItems
    /\ main_logic_kg.loaded
    /\ main_logic_kg.edges = <<>> /\ sub_logic_kgs = <<>> /\ cross_connections = <<>>
    /\ main_logic_kg' = [main_logic_kg EXCEPT !.nodes = Append(@, node)]
    /\ UNCHANGED <<sub_logic_kgs, cross_connections, fuse_pc, unified_kg, unified_file>>

AddMainEdge(edge) ==
    /\ fuse_pc = "input" /\ Items < MaxItems
    /\ main_logic_kg.loaded
    /\ sub_logic_kgs = <<>> /\ cross_connections = <<>>
    /\ main_logic_kg' = [main_logic_kg EXCEPT !.edges = Append(@, edge)]
    /\ UNCHANGED <<sub_logic_kgs, cross_connections, fuse_pc, unified_kg, unified_file>>

AddFragment(section_num) ==
    /\ fuse_pc = "input" /\ Items < MaxItems
    /\ cross_connections = <<>>
    /\ sub_logic_kgs' = Append(sub_logic_kgs,
                               [section_num |-> section_num, nodes |-> <<>>, edges |-> <<>>])
    /\ UNCHANGED <<main_logic_kg, cross_connections, fuse_pc, unified_kg, unified_file>>

AddSubNode(node) ==
    /\ fuse_pc = "input" /\ Items < MaxItems
    /\ sub_logic_kgs # <<>> /\ cross_connections = <<>>
    /\ sub_logic_kgs[Len(sub_logic_kgs)].edges = <<>>
    /\ sub_logic_kgs' = [sub_logic_kgs EXCEPT ![Len(sub_logic_kgs)].nodes = Append(@, node)]
    /\ UNCHANGED <<main_logic_kg, cross_connections, fuse_pc, unified_kg, unified_file>>

AddSubEdge(edge) ==
    /\ fuse_pc = "input" /\ Items < MaxItems
    /\ sub_logic_kgs # <<>> /\ cross_connections = <<>>
    /\ sub_logic_kgs' = [sub_logic_kgs EXCEPT ![Len(sub_logic_kgs)].edges = Append(@, edge)]
    /\ UNCHANGED <<main_logic_kg, cross_connections, fuse_pc, unified_kg, unified_file>>

AddConnection(conn) ==
    /\ fuse_pc = "input" /\ Items < MaxItems
    /\ cross_connections' = Append(cross_connections, conn)
    /\ UNCHANGED <<main_logic_kg, sub_logic_kgs, fuse_pc, unified_kg, unified_file>>

\* fuse_knowledge_graphs, lines 42-73; _save_unified_kg runs only on the path
\* that reaches line 70
FuseKnowledgeGraphs ==
    /\ fuse_pc = "input"
    /\ LET optimized_kg == FuseResult(main_logic_kg, sub_logic_kgs, cross_connections)
       IN  /\ unified_kg' = optimized_kg
           /\ unified_file' = optimized_kg
    /\ fuse_pc' = "done"
    /\ UNCHANGED <<main_logic_kg, sub_logic_kgs, cross_connections>>

(***************************************************************************)
(* Interchange documents in which the sections hold core technologies and  *)
(* circuit applications, and in which the main-logic graph and the         *)
(* fragments list edges with the relationship "implements", the name of    *)
(* one of the synthesized relationships.                                   *)
(***************************************************************************)
\* two keyword sets of Jaccard index 1/7 with each other, 1 with themselves
SynthKeywordSets == {{"A", "B"}, {"B", "C", "D", "E", "F", "G"}}

SynthNodes ==
    [id : Ids, node_type : {"core_technology", "circuit_application"},
     keywords : SynthKeywordSets]

SynthEdges == [source_id : Ids, target_id : {"b"}, relationship : {"implements"}]

SynthInit ==
    /\ main_logic_kg = [loaded |-> TRUE, nodes |-> <<>>, edges |-> <<>>]
    /\ sub_logic_kgs = <<>>
    /\ cross_connections = <<>>
    /\ fuse_pc = "input" /\ unified_kg = NoGraph /\ unified_file = NoGraph

AddOutlineEdge(edge) ==
    /\ fuse_pc = "input" /\ Items < MaxSynthItems
    /\ sub_logic_kgs = <<>>
    /\ main_logic_kg' = [main_logic_kg EXCEPT !.edges = Append(@, edge)]
    /\ UNCHANGED <<sub_logic_kgs, cross_connections, fuse_pc, unified_kg, unified_file>>

AddSection(section_num) ==
    /\ fuse_pc = "input" /\ Items < MaxSynthItems
    /\ sub_logic_kgs' = Append(sub_logic_kgs,
                               [section_num |-> section_num, nodes |-> <<>>, edges |-> <<>>])
    /\ UNCHANGED <<main_logic_kg, cross_connections, fuse_pc, unified_kg, unified_file>>

AddSectionNode(node) ==
    /\ fuse_pc = "input" /\ Items < MaxSynthItems
    /\ sub_logic_kgs # <<>>
    /\ sub_logic_kgs[Len(sub_logic_kgs)].edges = <<>>
    /\ sub_logic_kgs' = [sub_logic_kgs EXCEPT ![Len(sub_logic_kgs)].nodes = Append(@, node)]
    /\ UNCHANGED <<main_logic_kg, cross_connections, fuse_pc, unified_kg, unified_file>>

AddSectionEdge(edge) ==
    /\ fuse_pc = "input" /\ Items < MaxSynthItems
    /\ sub_logic_kgs # <<>>
    /\ sub_logic_kgs' = [sub_logic_kgs EXCEPT ![Len(sub_logic_kgs)].edges = Append(@, edge)]
    /\ UNCHANGED <<main_logic_kg, cross_connections, fuse_pc, unified_kg, unified_file>>

\* _optimize_unified_kg applied once more, to the graph it returned; the file
\* keeps the graph of the first application
OptimizeAgain ==
    /\ fuse_pc = "done"
    /\ unified_kg.produced
    /\ unified_kg' = OptimizeUnifiedKg(unified_kg)
    /\ fuse_pc' = "again"
    /\ UNCHANGED <<main_logic_kg, sub_logic_kgs, cross_connections, unified_file>>

(***************************************************************************)
(* A pipeline run: the five stages, each reading the interchange documents *)
(* the earlier stages wrote.  A section is known here by what the later    *)
(* stages ask of its content:                                              *)
(*   "short"  - at most 200 characters                                     *)
(*   "sparse" - longer, with fewer than two paragraphs of 50+ characters   *)
(*   "rich"   - longer, with two such paragraphs                           *)
(***************************************************************************)
SectionKinds == {"short", "sparse", "rich"}
SplitMethods == {"toc", "simple"}

NoSections == [saved |-> FALSE, sections |-> <<>>]

\* the order in which a run starts the stages
NextStage(stage) ==
    CASE stage = "split" -> "main"
      [] stage = "main" -> "sub"
      [] stage = "sub" -> "conn"
      [] stage = "conn" -> "fuse"
      [] stage = "fuse" -> "done"

SectionNum(i) == <<ToString(i)>>

\* sub_logic_generator._load_sections_data, line 83
LongEnough(kind) == kind # "short"

\* the fragment _build_kg_from_analysis makes of an answer of the service: a
\* basic concept and a circuit application with shared keywords, and one
\* relationship between them
ServiceFragment(i) ==
    [section_num |-> SectionNum(i),
     nodes |-> <<[id |-> <<"concept", i>>, node_type |-> "basic_concept", keywords |-> {"A", "B"}],
                 [id |-> <<"application", i>>, node_type |-> "circuit_application",
                  keywords |-> {"A", "B"}]>>,
     edges |-> <<[source_id |-> <<"concept", i>>, target_id |-> <<"application", i>>,
                  relationship |-> "r"]>>]

\* the fragment made of what _rule_based_extraction returns: one node per
\* paragraph of 50+ characters, no keywords, no relationships
FallbackFragment(i, kind) ==
    [section_num |-> SectionNum(i),
     nodes |-> [j \in 1..(IF kind = "rich" THEN 2 ELSE 1) |->
                   [id |-> <<"paragraph", i, j>>, node_type |-> "basic_concept", keywords |-> {}]],
     edges |-> <<>>]

\* _is_valid_kg, lines 536-550 (every node here has an id and a label)
IsValidKg(kg) == Len(kg.nodes) >= 2

\* _generate_node_pairs, lines 134-154, over the applications of the fragments
\* lines 141-144: the loops visit the positions i < j in order and keep the
\* pairs of nodes of different sections
GenerateNodePairs(apps) ==
    LET positions == [i \in 1..Len(apps) |-> i]
        kept == SelectSeq(SeqPairs(positions, positions),
                          LAMBDA p : /\ p[1] < p[2]
                                     /\ apps[p[1]].section_num # apps[p[2]].section_num)
    IN  [k \in 1..Len(kept) |-> <<apps[kept[k][1]], apps[kept[k][2]]>>]

\* line 149: the length above which the list is sampled
SampleLimit == 1000

\* random.sample(node_pairs, k), line 151: the elements at k different
\* positions, in any order
RandomSamples(node_pairs_, k) ==
    {[i \in 1..k |-> node_pairs_[chosen[i]]] :
        chosen \in {c \in [1..k -> 1..Len(node_pairs_)] :
                       \A i, j \in 1..k : c[i] = c[j] => i = j}}

\* _extract_circuit_applications, lines 98-132
ExtractCircuitApplications(sub_logic_data) ==
    ConcatAll([k \in 1..Len(sub_logic_data) |->
        LET apps == OfType(sub_logic_data[k].nodes, "circuit_application")
        IN  [j \in 1..Len(apps) |->
                [id |-> apps[j].id, section_num |-> sub_logic_data[k].section_num]]])

PipeInit ==
    /\ pipe_pc = "split"
    /\ document_sections = NoSections
    /\ section_outcome = <<>>

PipeIdle ==
    /\ pipe_pc = "idle"
    /\ document_sections = NoSections
    /\ section_outcome = <<>>

\* split_document, lines 55-103: only the TOC path reaches _save_sections;
\* the simple-split result is returned without being saved
RunSplit(method, kinds) ==
    /\ pipe_pc = "split"
    /\ IF method = "toc"
       THEN Len(kinds) >= 1 /\ document_sections' = [saved |-> TRUE, sections |-> kinds]
       ELSE kinds = <<>> /\ document_sections' = NoSections
    /\ pipe_pc' = NextStage(pipe_pc)
    /\ UNCHANGED <<fuseVars, section_outcome>>

\* generate_main_logic, lines 31-56: o is how the service call ends, "none"
\* when the sections cannot be loaded and no call is made
RunMainLogic(o) ==
    /\ pipe_pc = "main"
    /\ (o = "none") <=> ~document_sections.saved
    /\ main_logic_kg' =
          IF o = "ok"
          THEN [loaded |-> TRUE,
                nodes |-> [i \in 1..Len(document_sections.sections) |->
                              [id |-> <<"chapter", i>>, section_num |-> SectionNum(i)]],
                edges |-> <<>>]
          ELSE main_logic_kg
    /\ pipe_pc' = NextStage(pipe_pc)
    /\ UNCHANGED <<document_sections, section_outcome, sub_logic_kgs, cross_connections,
                   fuse_pc, unified_kg, unified_file>>

\* generate_sub_logic, lines 44-66: outcome[i] is how the service calls of
\* section i end ("graph": an analysis comes back; "fail": every call fails
\* and the rule-based extraction answers; "skip": the section is filtered out)
RunSubLogic(outcome) ==
    /\ pipe_pc = "sub"
    /\ IF ~document_sections.saved
       THEN outcome = <<>> /\ UNCHANGED sub_logic_kgs
       ELSE LET sections == document_sections.sections
                kgs == [i \in 1..Len(sections) |->
                           IF outcome[i] = "graph" THEN ServiceFragment(i)
                           ELSE FallbackFragment(i, sections[i])]
                kept == {i \in 1..Len(sections) : LongEnough(sections[i]) /\ IsValidKg(kgs[i])}
                RECURSIVE Validated(_)
                Validated(i) == IF i > Len(sections) THEN <<>>
                                ELSE (IF i \in kept THEN <<kgs[i]>> ELSE <<>>) \o Validated(i + 1)
            IN  /\ DOMAIN outcome = 1..Len(sections)
                /\ \A i \in 1..Len(sections) :
                      IF LongEnough(sections[i]) THEN outcome[i] \in {"graph", "fail"}
                                                 ELSE outcome[i] = "skip"
                /\ sub_logic_kgs' = Validated(1)
    /\ section_outcome' = outcome
    /\ pipe_pc' = NextStage(pipe_pc)
    /\ UNCHANGED <<document_sections, main_logic_kg, cross_connections, fuse_pc, unified_kg,
                   unified_file>>

\* analyze_connections, lines 44-78: nothing is saved when there is no
\* fragment, no application or no pair; outcome[q] is how the call of pair q ends
RunConnections(outcome) ==
    /\ pipe_pc = "conn"
    /\ LET node_pairs_ == GenerateNodePairs(ExtractCircuitApplications(sub_logic_kgs))
           found == SelectSeq([q \in 1..Len(node_pairs_) |->
                                  [has_connection |-> ReturnsConnection(ConnectionData(outcome[q])),
                                   source_id |-> node_pairs_[q][1].id,
                                   target_id |-> node_pairs_[q][2].id]],
                              LAMBDA c : c.has_connection)
       IN  /\ DOMAIN outcome = 1..Len(node_pairs_)
           /\ cross_connections' = IF node_pairs_ = <<>> THEN cross_connections ELSE found
    /\ pipe_pc' = NextStage(pipe_pc)
    /\ UNCHANGED <<document_sections, section_outcome, main_logic_kg, sub_logic_kgs, fuse_pc,
                   unified_kg, unified_file>>

\* fuse_knowledge_graphs as the last stage
RunFuse ==
    /\ pipe_pc = "fuse"
    /\ FuseKnowledgeGraphs
    /\ pipe_pc' = NextStage(pipe_pc)
    /\ UNCHANGED <<document_sections, section_outcome>>

(***************************************************************************)
(* Rule-Based Fallback Extractor: sub_logic_generator.py, lines 452-519    *)
(*                                                                         *)
(* A paragraph is known by whether it has 50 characters and by how many    *)
(* keywords of each entry of circuit_terms occur in it.                    *)
(***************************************************************************)
\* the keys of circuit_terms in the order the dict lists them, lines 460-466
TypeNames == <<"basic_concept", "core_technology", "circuit_application", "design_method",
               "analysis_tool">>

TypeNameSet == {TypeNames[i] : i \in 1..Len(TypeNames)}

ScoreValues == {0, 1}

Paragraphs == [long : BOOLEAN, type_scores : [TypeNameSet -> ScoreValues]]

\* paragraphs[:10], line 471
ParagraphLimit == 10

\* a test that skips no paragraph
NeverSkipped(para) == FALSE

\* line 472: if len(para) < 50: continue
IsSkipped(para) == ~para.long

\* lines 476-489: max(type_scores, key=type_scores.get) is the first key, in
\* the order of the dict, that has the highest score; a highest score of 0
\* keeps the default
ClassifyParagraph(type_scores) ==
    LET best == CHOOSE i \in 1..Len(TypeNames) :
                    /\ \A j \in 1..Len(TypeNames) : type_scores[TypeNames[j]] <= type_scores[TypeNames[i]]
                    /\ \A j \in 1..(i - 1) : type_scores[TypeNames[j]] < type_scores[TypeNames[i]]
    IN  IF type_scores[TypeNames[best]] = 0 THEN "basic_concept" ELSE TypeNames[best]

\* the loop of lines 471-512
RECURSIVE RuleNodes(_, _, _, _, _)
RuleNodes(section_num, paragraphs, i, node_id, nodes) ==
    IF i > Len(paragraphs) \/ i > ParagraphLimit THEN nodes
    ELSE IF IsSkipped(paragraphs[i])
         THEN RuleNodes(section_num, paragraphs, i + 1, node_id, nodes)
         ELSE LET node_type == ClassifyParagraph(paragraphs[i].type_scores)
              IN  RuleNodes(section_num, paragraphs, i + 1, node_id + 1,
                            Append(nodes, [id |-> <<section_num, node_type, node_id>>,
                                           node_type |-> node_type, keywords |-> {}]))

\* _rule_based_extraction, lines 452-519
RuleBasedExtraction(section_num, paragraphs) ==
    LET nodes == RuleNodes(section_num, paragraphs, 1, 1, <<>>)
    IN  [basic_concepts |-> OfType(nodes, "basic_concept"),
         core_technologies |-> OfType(nodes, "core_technology"),
         circuit_applications |-> OfType(nodes, "circuit_application"),
         relationships |-> <<>>]

\* _build_kg_from_analysis, lines 367-446, on an analysis of the requested shape
BuildKgFromTiers(analysis_data) ==
    [nodes |-> analysis_data.basic_concepts \o analysis_data.core_technologies
               \o analysis_data.circuit_applications,
     edges |-> analysis_data.relationships]

NoAnalysis ==
    [basic_concepts |-> <<>>, core_technologies |-> <<>>, circuit_applications |-> <<>>,
     relationships |-> <<>>]

RuleInit ==
    /\ rule_content = <<>>
    /\ rule_pc = "input"
    /\ rule_analysis = NoAnalysis
    /\ rule_kg = [nodes |-> <<>>, edges |-> <<>>]

RuleIdle ==
    /\ rule_content = <<>> /\ rule_pc = "idle"
    /\ rule_analysis = NoAnalysis /\ rule_kg = [nodes |-> <<>>, edges |-> <<>>]

\* the content gets one more paragraph
AddParagraph(para) ==
    /\ rule_pc = "input"
    /\ Len(rule_content) < MaxParagraphs
    /\ rule_content' = Append(rule_content, para)
    /\ UNCHANGED <<rule_pc, rule_analysis, rule_kg>>

\* the except branch of _call_deepseek_with_cot_triplet_extraction, lines
\* 338-347, followed by _extract_concurrent's call of _build_kg_from_analysis
ExtractByRules ==
    /\ rule_pc = "input"
    /\ LET analysis_data == RuleBasedExtraction(SectionNum(1), rule_content)
       IN  /\ rule_analysis' = analysis_data
           /\ rule_kg' = BuildKgFromTiers(analysis_data)
    /\ rule_pc' = "done"
    /\ UNCHANGED rule_content

(***************************************************************************)
(* TOC Reconciler: document_splitter.py, lines 319-388, called with a TOC  *)
(* and body headings present, over answers whose entries carry any         *)
(* confidence                                                              *)
(***************************************************************************)
\* a title list that is not empty: lines 324-326 test nothing else of it
TitlesFound == <<1>>

ScoredEntries == [kind : MatchKinds, line : 1..2, confidence : Confidences]

MatchInit == match_answer = <<>> /\ match_pc = "answer" /\ reconciled = <<>>

MatchIdle == match_answer = <<>> /\ match_pc = "idle" /\ reconciled = <<>>

\* the answer of the service holds one more entry
AnswerMatch(entry) ==
    /\ match_pc = "answer"
    /\ Len(match_answer) < MaxMatches
    /\ match_answer' = Append(match_answer, entry)
    /\ UNCHANGED <<match_pc, reconciled>>

\* _match_toc_with_content when _call_llm_for_matching returns the list
ReconcileMatches ==
    /\ match_pc = "answer"
    /\ reconciled' = MatchTocWithContent(TitlesFound, TitlesFound,
                                         [error |-> FALSE, matches |-> match_answer])
    /\ match_pc' = "done"
    /\ UNCHANGED match_answer

(***************************************************************************)
(* Pair generation: connection_analyzer.py, lines 134-154, over the list   *)
(* of applications that _extract_circuit_applications collected            *)
(***************************************************************************)
Applications == [id : Ids, section_num : SubSectionNums]

GenInit == circuit_apps = <<>> /\ gen_pc = "input" /\ generated_pairs = <<>>

GenIdle == circuit_apps = <<>> /\ gen_pc = "idle" /\ generated_pairs = <<>>

\* one more circuit_application node is found in the fragments
CollectApplication(app) ==
    /\ gen_pc = "input"
    /\ Len(circuit_apps) < MaxApps
    /\ circuit_apps' = Append(circuit_apps, app)
    /\ UNCHANGED <<gen_pc, generated_pairs>>

\* _generate_node_pairs
GeneratePairs ==
    /\ gen_pc = "input"
    /\ LET node_pairs_ == GenerateNodePairs(circuit_apps)
       IN  IF Len(node_pairs_) > SampleLimit
           THEN generated_pairs' \in RandomSamples(node_pairs_, SampleLimit)
           ELSE generated_pairs' = node_pairs_
    /\ gen_pc' = "done"
    /\ UNCHANGED circuit_apps

(***************************************************************************)
(* Specifications                                                          *)
(***************************************************************************)
notSplit == <<genVars, matchVars, ruleVars, batchVars, pairVars, fuseVars, pipeVars>>

notBatch == <<genVars, matchVars, ruleVars, splitVars, pairVars, fuseVars, pipeVars>>

notPairs == <<genVars, matchVars, ruleVars, splitVars, sectionVars, fuseVars, pipeVars>>

notFuse == <<genVars, matchVars, ruleVars, splitVars, batchVars, pairVars, pipeVars>>

notPipeline == <<genVars, matchVars, ruleVars, splitVars, batchVars, pairVars>>

notRule == <<genVars, matchVars, splitVars, batchVars, pairVars, fuseVars, pipeVars>>

InitSplit == GenIdle /\ MatchIdle /\ RuleIdle /\ SplitInit /\ BatchIdle /\ PairIdle /\ FuseIdle /\ PipeIdle

NextSplit ==
    \/ \E k \in LineKinds : ReadLine(k) /\ UNCHANGED notSplit
    \/ \E resp \in Responses(lines) : SplitDocument(resp) /\ UNCHANGED notSplit

SpecSplit == InitSplit /\ [][NextSplit]_vars

InitBatch == GenIdle /\ MatchIdle /\ RuleIdle /\ BatchInit /\ SplitInit /\ PairIdle /\ FuseIdle /\ PipeIdle

NextBatch ==
    \/ \E t \in DOMAIN fut : StartSection(t) /\ UNCHANGED notBatch
    \/ \E t \in DOMAIN fut : \E o \in CallOutcomes : AttemptSection(t, o) /\ UNCHANGED notBatch
    \/ \E t \in DOMAIN fut : CollectSection(t) /\ UNCHANGED notBatch
    \/ BatchReturn /\ UNCHANGED notBatch

SpecBatch == InitBatch /\ [][NextBatch]_vars

InitPairs ==
    /\ GenIdle /\ MatchIdle /\ RuleIdle /\ PairInit /\ PoolInit /\ SplitInit /\ FuseIdle /\ PipeIdle
    /\ batch_sections = <<>> /\ batch_pc = "pool"
    /\ fut = <<>> /\ attempts = <<>> /\ raises = <<>> /\ sleeps = <<>>
    /\ future_result = <<>> /\ results = <<>> /\ failed_sections = <<>>

NextPairs ==
    \/ \E q \in DOMAIN pair_fut : StartPair(q) /\ UNCHANGED notPairs
    \/ \E q \in DOMAIN pair_fut : \E o \in ServiceOutcomes : AnalyzePair(q, o) /\ UNCHANGED notPairs
    \/ \E q \in DOMAIN pair_fut : AnalyzePairPromptError(q) /\ UNCHANGED notPairs
    \/ \E q \in DOMAIN pair_fut : CollectPair(q) /\ UNCHANGED notPairs
    \/ PairsReturn /\ UNCHANGED notPairs

SpecPairs == InitPairs /\ [][NextPairs]_vars

\* either pool: a run of the section extractor or a run of the pair analyzer
InitPools == InitBatch \/ InitPairs

NextPools ==
    \/ \E t \in DOMAIN fut : StartSection(t) /\ UNCHANGED notBatch
    \/ \E t \in DOMAIN fut : \E o \in CallOutcomes : AttemptSection(t, o) /\ UNCHANGED notBatch
    \/ \E t \in DOMAIN fut : CollectSection(t) /\ UNCHANGED notBatch
    \/ BatchReturn /\ UNCHANGED notBatch
    \/ \E q \in DOMAIN pair_fut : StartPair(q) /\ UNCHANGED notPairs
    \/ \E q \in DOMAIN pair_fut : \E o \in ServiceOutcomes : AnalyzePair(q, o) /\ UNCHANGED notPairs
    \/ \E q \in DOMAIN pair_fut : AnalyzePairPromptError(q) /\ UNCHANGED notPairs
    \/ \E q \in DOMAIN pair_fut : CollectPair(q) /\ UNCHANGED notPairs
    \/ PairsReturn /\ UNCHANGED notPairs

SpecPools == InitPools /\ [][NextPools]_vars

InitFuse == GenIdle /\ MatchIdle /\ RuleIdle /\ FuseInit /\ SplitInit /\ BatchIdle /\ PairIdle /\ PipeIdle

NextFuse ==
    \/ \E node \in MainNodes : AddMainNode(node) /\ UNCHANGED notFuse
    \/ \E edge \in InputEdges : AddMainEdge(edge) /\ UNCHANGED notFuse
    \/ \E section_num \in SubSectionNums : AddFragment(section_num) /\ UNCHANGED notFuse
    \/ \E node \in SubNodes : AddSubNode(node) /\ UNCHANGED notFuse
    \/ \E edge \in InputEdges : AddSubEdge(edge) /\ UNCHANGED notFuse
    \/ \E conn \in Connections : AddConnection(conn) /\ UNCHANGED notFuse
    \/ FuseKnowledgeGraphs /\ UNCHANGED notFuse
    \/ OptimizeAgain /\ UNCHANGED notFuse

SpecFuse == InitFuse /\ [][NextFuse]_vars

KindSeqs == SeqsUpTo(SectionKinds, MaxPipeSections)

StageOutcomes(n, S) == UNION {[1..k -> S] : k \in 0..n}

\* a run starts with none of the interchange documents written
InitPipeline == GenIdle /\ MatchIdle /\ RuleIdle /\ PipeInit /\ FuseIdle /\ SplitInit /\ BatchIdle /\ PairIdle

NextPipeline ==
    \/ \E method \in SplitMethods : \E kinds \in KindSeqs :
          RunSplit(method, kinds) /\ UNCHANGED notPipeline
    \/ \E o \in {"none", "ok", "fail"} : RunMainLogic(o) /\ UNCHANGED notPipeline
    \/ \E outcome \in StageOutcomes(MaxPipeSections, {"graph", "fail", "skip"}) :
          RunSubLogic(outcome) /\ UNCHANGED notPipeline
    \/ \E outcome \in StageOutcomes(MaxPipeSections, ServiceOutcomes) :
          RunConnections(outcome) /\ UNCHANGED notPipeline
    \/ RunFuse /\ UNCHANGED notPipeline

SpecPipeline == InitPipeline /\ [][NextPipeline]_vars

InitRule == GenIdle /\ MatchIdle /\ RuleInit /\ SplitInit /\ BatchIdle /\ PairIdle /\ FuseIdle /\ PipeIdle

NextRule ==
    \/ \E para \in Paragraphs : AddParagraph(para) /\ UNCHANGED notRule
    \/ ExtractByRules /\ UNCHANGED notRule

SpecRule == InitRule /\ [][NextRule]_vars

notMatch == <<genVars, ruleVars, splitVars, batchVars, pairVars, fuseVars, pipeVars>>

InitMatch ==
    GenIdle /\ MatchInit /\ RuleIdle /\ SplitInit /\ BatchIdle /\ PairIdle /\ FuseIdle /\ PipeIdle

NextMatch ==
    \/ \E entry \in ScoredEntries : AnswerMatch(entry) /\ UNCHANGED notMatch
    \/ ReconcileMatches /\ UNCHANGED notMatch

SpecMatch == InitMatch /\ [][NextMatch]_vars

InitSynth ==
    GenIdle /\ MatchIdle /\ RuleIdle /\ SynthInit /\ SplitInit /\ BatchIdle /\ PairIdle /\ PipeIdle

NextSynth ==
    \/ \E edge \in SynthEdges : AddOutlineEdge(edge) /\ UNCHANGED notFuse
    \/ \E section_num \in SubSectionNums : AddSection(section_num) /\ UNCHANGED notFuse
    \/ \E node \in SynthNodes : AddSectionNode(node) /\ UNCHANGED notFuse
    \/ \E edge \in SynthEdges : AddSectionEdge(edge) /\ UNCHANGED notFuse
    \/ FuseKnowledgeGraphs /\ UNCHANGED notFuse

SpecSynth == InitSynth /\ [][NextSynth]_vars

notGen == <<matchVars, ruleVars, splitVars, batchVars, pairVars, fuseVars, pipeVars>>

InitGen ==
    GenInit /\ MatchIdle /\ RuleIdle /\ SplitInit /\ BatchIdle /\ PairIdle /\ FuseIdle /\ PipeIdle

NextGen ==
    \/ \E app \in Applications : CollectApplication(app) /\ UNCHANGED notGen
    \/ GeneratePairs /\ UNCHANGED notGen

SpecGen == InitGen /\ [][NextGen]_vars

(***************************************************************************)
(* Properties                                                              *)
(***************************************************************************)
Span(sec) == sec.start_line .. sec.end_line

TocSplitDone == split_pc = "done" /\ sections_data.method = "toc"

SimpleSplitDone == split_pc = "done" /\ sections_data.method = "simple"

C2_SimpleSpansContiguous ==
    SimpleSplitDone /\ sections_data.sections # <<>> =>
        LET secs == sections_data.sections
            n == Len(secs)
        IN  /\ \A i \in 1..(n - 1) : secs[i].end_line = secs[i + 1].start_line - 1
            /\ \A i, j \in 1..n : i # j => Span(secs[i]) \cap Span(secs[j]) = {}
            /\ secs[n].end_line = Len(lines)

BatchDone == batch_pc = "returned"

\* occurrences of section number n among the fragments / in the failure list
FragmentsOf(n) == Cardinality({i \in 1..Len(results) : results[i].section_num = n})

FailuresOf(n) == Cardinality({i \in 1..Len(failed_sections) : failed_sections[i] = n})

\* the section's call raised on every attempt
AlwaysRaised(t) == attempts[t] >= 1 /\ raises[t] = attempts[t] /\ ~future_result[t].success

\* the section's call failed on the first max_retries - 1 attempts and
\* returned a non-empty analysis on the last
SucceededOnLastAttempt(t) == attempts[t] = MaxRetries /\ future_result[t].success

\* C3: when every section's extraction call fails on its first
\* max_retries - 1 attempts and returns a non-empty analysis on the last, the
\* batch returns one fragment per section and failed_sections is empty, for
\* every number of sections and every pool width.
C3_LastAttemptSucceedsAll ==
    (BatchDone /\ \A t \in DOMAIN fut : SucceededOnLastAttempt(t)) =>
        /\ Len(results) = Len(batch_sections)
        /\ \A t \in DOMAIN fut : FragmentsOf(batch_sections[t]) = 1
        /\ failed_sections = <<>>

\* C4: a section whose extraction call raises on every attempt is attempted
\* exactly max_retries times, is listed exactly once in failed_sections and
\* has no fragment, and every other section whose call produced a usable
\* analysis still has its fragment in the returned list.
C4_AlwaysRaisingSectionFailsOnce ==
    BatchDone =>
        \A t \in DOMAIN fut :
            AlwaysRaised(t) =>
                /\ attempts[t] = MaxRetries
                /\ FailuresOf(batch_sections[t]) = 1
                /\ FragmentsOf(batch_sections[t]) = 0
                /\ \A u \in DOMAIN fut \ {t} :
                      future_result[u].analysis = "ok" => FragmentsOf(batch_sections[u]) = 1

\* C4 witness: a batch has returned in which one section raised three times
\* and another section delivered its fragment
C4_Witness ==
    /\ BatchDone
    /\ \E t, u \in DOMAIN fut :
          /\ t # u
          /\ AlwaysRaised(t) /\ attempts[t] = MaxRetries
          /\ FragmentsOf(batch_sections[u]) = 1

\* C6: after the batch the progress tracker was updated once per task:
\* completed_tasks + failed_tasks = N, completed_tasks is the number of tasks
\* that succeeded and failed_tasks the number of tasks in the failure list.
C6_ProgressCountsOutcomes ==
    BatchDone =>
        /\ completed_tasks + failed_tasks = Len(batch_sections)
        /\ completed_tasks = Cardinality({t \in DOMAIN fut : future_result[t].success})
        /\ failed_tasks = Len(failed_sections)

PairsDone == pair_pc = "returned"

\* every request sent for the pair failed (transport error or unparseable answer)
ServiceAlwaysFailed(q) ==
    service_calls[q] >= 1 /\ pair_outcome[q] \in {"transport", "unparseable"}

PairFailuresOf(n) == Cardinality({i \in 1..Len(failed_pairs) : failed_pairs[i] = n})

PairConnectionsOf(n) == Cardinality({i \in 1..Len(connections) : connections[i] = n})

\* C5: a pair whose service call fails on every attempt is attempted at most
\* max_retries times, is then recorded exactly once in failed_pairs and is
\* not among the connection results, and the batch still returns.
C5_FailedPairRecordedOnce ==
    PairsDone =>
        \A q \in DOMAIN pair_fut :
            ServiceAlwaysFailed(q) =>
                /\ service_calls[q] <= PairMaxRetries
                /\ PairFailuresOf(node_pairs[q]) = 1
                /\ PairConnectionsOf(node_pairs[q]) = 0

FuseDone == fuse_pc = "done"

\* the list _fuse_graphs built, before the dedup
Fused == FuseGraphs(main_logic_kg, sub_logic_kgs, cross_connections)

FirstWithId(nodes, id) ==
    nodes[CHOOSE i \in 1..Len(nodes) : nodes[i].id = id /\ \A j \in 1..(i - 1) : nodes[j].id # id]

FirstWithKey(edges, key) ==
    edges[CHOOSE i \in 1..Len(edges) :
              EdgeKey(edges[i]) = key /\ \A j \in 1..(i - 1) : EdgeKey(edges[j]) # key]

\* C7: in the unified graph node ids are pairwise distinct and edge keys
\* (source_id, target_id, relationship) are pairwise distinct; every id and
\* key of the fused lists survives, and the survivor is the first occurrence
\* in fusion order.
C7_DedupFirstOccurrenceWins ==
    (FuseDone /\ unified_kg.produced) =>
        LET nodes == unified_kg.nodes
            edges == unified_kg.edges
        IN  /\ \A i, j \in 1..Len(nodes) : nodes[i].id = nodes[j].id => i = j
            /\ \A i, j \in 1..Len(edges) : EdgeKey(edges[i]) = EdgeKey(edges[j]) => i = j
            /\ {nodes[i].id : i \in 1..Len(nodes)} = {Fused.nodes[i].id : i \in 1..Len(Fused.nodes)}
            /\ {EdgeKey(edges[i]) : i \in 1..Len(edges)}
                   = {EdgeKey(Fused.edges[i]) : i \in 1..Len(Fused.edges)}
            /\ \A i \in 1..Len(nodes) : nodes[i] = FirstWithId(Fused.nodes, nodes[i].id)
            /\ \A i \in 1..Len(edges) : edges[i] = FirstWithKey(Fused.edges, EdgeKey(edges[i]))

\* a fusion in which a section node repeats the id of a main-logic node, and
\* the node that survived with that id is the main-logic one
C7_Witness ==
    /\ FuseDone /\ unified_kg.produced
    /\ \E i \in 1..Len(main_logic_kg.nodes) : \E k \in 1..Len(sub_logic_kgs) :
          \E j \in 1..Len(sub_logic_kgs[k].nodes) :
             /\ sub_logic_kgs[k].nodes[j].id = main_logic_kg.nodes[i].id
             /\ \E u \in 1..Len(unified_kg.nodes) :
                   /\ unified_kg.nodes[u].id = main_logic_kg.nodes[i].id
                   /\ unified_kg.nodes[u].source = "main_logic"

\* C8: every edge of the unified graph starts and ends at a node that
\* survives in that graph.
C8_NoDanglingEdges ==
    (FuseDone /\ unified_kg.produced) =>
        LET ids == {unified_kg.nodes[i].id : i \in 1..Len(unified_kg.nodes)}
        IN  \A e \in 1..Len(unified_kg.edges) :
               unified_kg.edges[e].source_id \in ids /\ unified_kg.edges[e].target_id \in ids

\* C9: fusing a main-logic graph with no section fragment and no connection
\* yields a unified graph with exactly the main-logic graph's node count and
\* edge count.
C9_MainOnlyFusionKeepsCounts ==
    (FuseDone /\ main_logic_kg.loaded /\ sub_logic_kgs = <<>> /\ cross_connections = <<>>) =>
        /\ unified_kg.produced
        /\ Len(unified_kg.nodes) = Len(main_logic_kg.nodes)
        /\ Len(unified_kg.edges) = Len(main_logic_kg.edges)

\* C10: a pipeline run over a readable document ends with a unified graph
\* returned by the fusion stage and written out, whichever service calls
\* failed.
C10_RunProducesUnifiedGraph ==
    pipe_pc = "done" => (unified_kg.produced /\ unified_file.produced)

SubLogicDone == pipe_pc \in {"conn", "fuse", "done"} /\ document_sections.saved

\* every extraction call of the run failed
ServiceUnavailable == \A i \in DOMAIN section_outcome : section_outcome[i] # "graph"

HasFragment(i) == \E k \in 1..Len(sub_logic_kgs) : sub_logic_kgs[k].section_num = SectionNum(i)

\* C11: when every extraction call of every section fails, each section of
\* the section data still has a fragment in the fragment summary that the
\* fusion stage reads.
C11_EverySectionHasFragment ==
    (SubLogicDone /\ ServiceUnavailable) =>
        \A i \in 1..Len(document_sections.sections) : HasFragment(i)

RuleDone == rule_pc = "done"

\* the paragraphs the extraction keeps, in document order
Retained == SelectSeq(rule_content, LAMBDA para : para.long)

\* C12: the rule-based extraction returns a fragment for every content, and
\* when every paragraph is shorter than the minimum length that fragment has
\* no nodes and no edges.
C12_ShortParagraphsGiveEmptyFragment ==
    RuleDone =>
        /\ DOMAIN rule_kg = {"nodes", "edges"}
        /\ Retained = <<>> => (rule_kg.nodes = <<>> /\ rule_kg.edges = <<>>)

\* a content of paragraphs that are all too short was extracted
C12_Witness ==
    /\ RuleDone
    /\ rule_content # <<>>
    /\ Retained = <<>>
    /\ rule_kg.nodes = <<>>

\* the tier the paragraph belongs to: the one of the three tiers with the
\* strictly highest count, basic_concept on a tie or when nothing matches
Tiers == {"basic_concept", "core_technology", "circuit_application"}

ExpectedTier(type_scores) ==
    LET winners == {t \in Tiers : \A u \in Tiers \ {t} : type_scores[u] < type_scores[t]}
    IN  IF winners = {} THEN "basic_concept" ELSE CHOOSE t \in winners : TRUE

\* C13: every retained paragraph yields exactly one node of the returned
\* fragment, of the tier with the highest keyword count, basic_concept when
\* the highest count is tied or zero.
C13_ParagraphClassifiedByHighestCount ==
    RuleDone =>
        /\ Len(rule_kg.nodes) = Len(Retained)
        /\ \A k \in 1..Len(Retained) :
              \E n \in 1..Len(rule_kg.nodes) :
                 /\ rule_kg.nodes[n].id[3] = k
                 /\ rule_kg.nodes[n].node_type \in Tiers
                 /\ rule_kg.nodes[n].node_type = ExpectedTier(Retained[k].type_scores)

SplitDone == split_pc = "done"

\* C14: a readable document whose segmentation by table of contents is not
\* completed (no TOC entry, no body heading, no match, or a failure while the
\* spans are derived) comes back as the simple-split segmentation, never as
\* an empty result.
C14_IncompleteTocFallsBackToSimple ==
    (SplitDone /\ sections_data.method # "toc") =>
        /\ sections_data.method = "simple"
        /\ sections_data.sections = SimpleSplitFallback(lines)

\* C15: whichever segmentation split_document returns, by table of contents
\* or by the simple split, the section-data document holds it when the call
\* returns.
C15_ReturnedSegmentationIsSaved ==
    (SplitDone /\ sections_data.method \in {"toc", "simple"}) =>
        /\ sections_file.saved
        /\ sections_file.sections = sections_data.sections

\* the lines of the document that match one of the two heading patterns
HeadingLines == {i \in 1..Len(lines) : IsSimpleHeading(lines[i])}

\* C18: in the simple split every heading line starts a section of the
\* result, and the sections are numbered 1, 2, 3, ... in order, without a gap
\* and without a repeat.
C18_SimpleSectionsNumberedInSequence ==
    SimpleSplitDone =>
        LET secs == sections_data.sections
        IN  /\ {secs[i].start_line : i \in 1..Len(secs)} = HeadingLines
            /\ \A i \in 1..Len(secs) : secs[i].section_num = i

\* C16: every match of the reconciled list has a confidence of at least 0.5;
\* a match of the answer with a lower confidence, or with none, is not in it.
C16_ReconciledMatchesAreConfident ==
    match_pc = "done" =>
        \A i \in 1..Len(reconciled) : reconciled[i].confidence[1] >= 5

\* a TOC marker, two TOC entries, and after them two '#' headings among
\* lines of text or blank lines
TwoEntryDocument ==
    /\ Len(lines) >= 5
    /\ lines[1] = "marker" /\ lines[2] = "num" /\ lines[3] = "num"
    /\ \A i \in 4..Len(lines) : lines[i] \in {"hash", "text", "blank"}
    /\ Cardinality({i \in 4..Len(lines) : lines[i] = "hash"}) = 2

\* the answer that pairs the body headings found, in order, with confidence 1.0
PairingAnswer ==
    LET found == ExtractContentTitles(lines, ExtractTocTitles(lines).end)
    IN  [error |-> FALSE,
         matches |-> [i \in 1..Len(found) |->
                         [kind |-> "ok", line |-> found[i], confidence |-> <<10>>]]]

\* C17: a document with a TOC marker, two TOC entries and the two matching
\* '#' headings after the TOC, paired by the service with confidence 1.0, is
\* split by table of contents into exactly two sections that do not overlap,
\* wherever the two headings stand after the TOC.
C17_TwoEntriesGiveTwoSections ==
    (SplitDone /\ TwoEntryDocument /\ (CallsService(lines) => llm_response = PairingAnswer)) =>
        /\ sections_data.method = "toc"
        /\ Len(matched_sections) = 2
        /\ Len(sections_data.sections) = 2
        /\ Span(sections_data.sections[1]) \cap Span(sections_data.sections[2]) = {}

OptimizedTwice == fuse_pc = "again"

\* C19: deduplicating an already deduplicated unified graph changes nothing:
\* the same nodes and the same edges in the same order, and the same
\* statistics, as after the first deduplication.
C19_DedupIsIdempotent ==
    OptimizedTwice =>
        /\ unified_kg.nodes = unified_file.nodes
        /\ unified_kg.edges = unified_file.edges
        /\ unified_kg.statistics = unified_file.statistics

\* the first deduplication removed a repeated node, and the second one was
\* run on its result
C19_Witness ==
    /\ OptimizedTwice
    /\ Len(Fused.nodes) > Len(unified_file.nodes)
    /\ unified_file.nodes # <<>>
    /\ unified_kg = unified_file

\* C20: after the deduplication every figure of the statistics describes the
\* deduplicated graph: the two totals, the node count of each node type, and
\* the count of cross-section edges.
C20_StatisticsDescribeDedupedGraph ==
    (FuseDone /\ unified_kg.produced) =>
        LET nodes == unified_kg.nodes
            edges == unified_kg.edges
            statistics == unified_kg.statistics
        IN  /\ statistics.total_nodes = Len(nodes)
            /\ statistics.total_edges = Len(edges)
            /\ statistics.main_logic_nodes = CountOfType(nodes, "main_logic")
            /\ statistics.basic_concept_nodes = CountOfType(nodes, "basic_concept")
            /\ statistics.core_technology_nodes = CountOfType(nodes, "core_technology")
            /\ statistics.circuit_application_nodes = CountOfType(nodes, "circuit_application")
            /\ statistics.cross_section_edges
                   = Len(SelectSeq(edges, LAMBDA e : e.edge_type = "inter_section"))

\* the main-logic nodes the section number selects: those with exactly that
\* number, or else those whose number is its longest prefix
MatchingMainIds(section_num) ==
    LET main_nodes == main_logic_kg.nodes
        exact == {i \in 1..Len(main_nodes) : main_nodes[i].section_num = section_num}
        prefixes == {i \in 1..Len(main_nodes) : StartsWith(section_num, main_nodes[i].section_num)}
        longest == {i \in prefixes :
                       \A j \in prefixes : Len(main_nodes[j].section_num) <= Len(main_nodes[i].section_num)}
    IN  {main_nodes[i].id : i \in (IF exact # {} THEN exact ELSE longest)}

ApplicationIds(kg) ==
    {kg.nodes[j].id : j \in {i \in 1..Len(kg.nodes) : kg.nodes[i].node_type = "circuit_application"}}

\* C21: the contains_application edges of a fragment start at the main-logic
\* node with the fragment's section number, or else at the one whose section
\* number is the longest prefix of it; there is one to every
\* circuit_application node of the fragment, and none when no main-logic
\* node matches.
C21_ContainsApplicationFromMatchingNode ==
    (FuseDone /\ unified_kg.produced) =>
        LET contains == {e \in 1..Len(unified_kg.edges) :
                            unified_kg.edges[e].edge_type = "main_to_sub"}
        IN  /\ \A e \in contains :
                  \E k \in 1..Len(sub_logic_kgs) :
                     /\ unified_kg.edges[e].target_id \in ApplicationIds(sub_logic_kgs[k])
                     /\ unified_kg.edges[e].source_id \in MatchingMainIds(sub_logic_kgs[k].section_num)
            /\ \A k \in 1..Len(sub_logic_kgs) :
                  MatchingMainIds(sub_logic_kgs[k].section_num) # {} =>
                      \A id \in ApplicationIds(sub_logic_kgs[k]) :
                         \E e \in contains :
                            /\ unified_kg.edges[e].target_id = id
                            /\ unified_kg.edges[e].source_id
                                   \in MatchingMainIds(sub_logic_kgs[k].section_num)

\* the Jaccard index of two keyword sets is defined and at least tenths/10
JaccardAtLeast(keywords1, keywords2, tenths) ==
    /\ keywords1 \cup keywords2 # {}
    /\ 10 * Cardinality(keywords1 \cap keywords2) >= tenths * Cardinality(keywords1 \cup keywords2)

\* the (source, target) pairs of one fragment's nodes of the two types whose
\* keyword sets reach the threshold
SimilarIdPairs(from_type, to_type, tenths) ==
    UNION {{<<kg.nodes[i].id, kg.nodes[j].id>> :
               <<i, j>> \in {p \in (1..Len(kg.nodes)) \X (1..Len(kg.nodes)) :
                                /\ kg.nodes[p[1]].node_type = from_type
                                /\ kg.nodes[p[2]].node_type = to_type
                                /\ JaccardAtLeast(kg.nodes[p[1]].keywords,
                                                  kg.nodes[p[2]].keywords, tenths)}} :
           kg \in {sub_logic_kgs[k] : k \in 1..Len(sub_logic_kgs)}}

HierarchicalIdPairs(relationship) ==
    {<<unified_kg.edges[e].source_id, unified_kg.edges[e].target_id>> :
        e \in {i \in 1..Len(unified_kg.edges) :
                  /\ unified_kg.edges[i].edge_type = "hierarchical"
                  /\ unified_kg.edges[i].relationship = relationship}}

\* C22: within a section an enables edge (basic_concept to core_technology)
\* and an implements edge (core_technology to circuit_application) exist
\* exactly for the node pairs whose keyword Jaccard index is at least 0.2, a
\* supports edge (basic_concept to circuit_application) exactly for those
\* with at least 0.4; a node without keywords gets none.
C22_HierarchicalEdgesFollowJaccard ==
    (FuseDone /\ unified_kg.produced) =>
        /\ HierarchicalIdPairs("enables") = SimilarIdPairs("basic_concept", "core_technology", 2)
        /\ HierarchicalIdPairs("implements")
               = SimilarIdPairs("core_technology", "circuit_application", 2)
        /\ HierarchicalIdPairs("supports") = SimilarIdPairs("basic_concept", "circuit_application", 4)
        /\ \A e \in 1..Len(unified_kg.edges) :
              unified_kg.edges[e].edge_type = "hierarchical" =>
                  \E k \in 1..Len(sub_logic_kgs) : \E i, j \in 1..Len(sub_logic_kgs[k].nodes) :
                     /\ sub_logic_kgs[k].nodes[i].id = unified_kg.edges[e].source_id
                     /\ sub_logic_kgs[k].nodes[j].id = unified_kg.edges[e].target_id
                     /\ sub_logic_kgs[k].nodes[i].keywords # {}
                     /\ sub_logic_kgs[k].nodes[j].keywords # {}

\* a section with a basic_concept of keywords {A, B} and a core_technology of
\* keywords {B, C} (index 1/3) was fused: an enables edge joins them
C22_Witness ==
    /\ FuseDone /\ unified_kg.produced
    /\ \E k \in 1..Len(sub_logic_kgs) : \E i, j \in 1..Len(sub_logic_kgs[k].nodes) :
          /\ sub_logic_kgs[k].nodes[i].node_type = "basic_concept"
          /\ sub_logic_kgs[k].nodes[i].keywords = {"A", "B"}
          /\ sub_logic_kgs[k].nodes[j].node_type = "core_technology"
          /\ sub_logic_kgs[k].nodes[j].keywords = {"B", "C"}
          /\ <<sub_logic_kgs[k].nodes[i].id, sub_logic_kgs[k].nodes[j].id>>
                 \in HierarchicalIdPairs("enables")

\* the relates_to_application edges of the unified graph
ApplicationEdges ==
    {e \in 1..Len(unified_kg.edges) : unified_kg.edges[e].relationship = "relates_to_application"}

\* two circuit_application nodes of fragments with different section numbers,
\* with these two ids, whose keyword sets have a Jaccard index of 0.2 or more
RelatedApplications(source_id, target_id) ==
    \E k, l \in 1..Len(sub_logic_kgs) :
       /\ sub_logic_kgs[k].section_num # sub_logic_kgs[l].section_num
       /\ \E i \in 1..Len(sub_logic_kgs[k].nodes) : \E j \in 1..Len(sub_logic_kgs[l].nodes) :
             /\ sub_logic_kgs[k].nodes[i].id = source_id
             /\ sub_logic_kgs[l].nodes[j].id = target_id
             /\ sub_logic_kgs[k].nodes[i].node_type = "circuit_application"
             /\ sub_logic_kgs[l].nodes[j].node_type = "circuit_application"
             /\ JaccardAtLeast(sub_logic_kgs[k].nodes[i].keywords,
                               sub_logic_kgs[l].nodes[j].keywords, 2)

LevelOf == [main_logic |-> 0, basic_concept |-> 1, core_technology |-> 2, circuit_application |-> 3]

\* C24: the level of every node of the unified graph is determined by its
\* node_type alone: 0 for main_logic, 1 for basic_concept, 2 for
\* core_technology, 3 for circuit_application, whichever list it came from.
C24_LevelFollowsNodeType ==
    (FuseDone /\ unified_kg.produced) =>
        \A i \in 1..Len(unified_kg.nodes) :
           /\ unified_kg.nodes[i].node_type \in DOMAIN LevelOf
           /\ unified_kg.nodes[i].level = LevelOf[unified_kg.nodes[i].node_type]

\* a unified graph with a main-logic node and a section node above level 1
C24_Witness ==
    /\ FuseDone /\ unified_kg.produced
    /\ \E i, j \in 1..Len(unified_kg.nodes) :
          /\ unified_kg.nodes[i].source = "main_logic" /\ unified_kg.nodes[i].level = 0
          /\ unified_kg.nodes[j].source = "sub_logic" /\ unified_kg.nodes[j].level > 1

PairsGenerated == gen_pc = "done"

\* C25: the generated list holds only pairs of applications of different
\* sections, holds no unordered pair of nodes twice, and has at most 1000
\* pairs: the whole candidate list when that has at most 1000 pairs, and
\* otherwise 1000 of the candidates.
C25_PairsCrossSectionOnceCapped ==
    PairsGenerated =>
        LET candidates == GenerateNodePairs(circuit_apps)
            n == Len(generated_pairs)
        IN  /\ \A q \in 1..n : generated_pairs[q][1].section_num # generated_pairs[q][2].section_num
            /\ \A q, r \in 1..n :
                  {generated_pairs[q][1], generated_pairs[q][2]}
                      = {generated_pairs[r][1], generated_pairs[r][2]} => q = r
            /\ n <= SampleLimit
            /\ Len(candidates) <= SampleLimit => generated_pairs = candidates
            /\ Len(candidates) > SampleLimit =>
                  /\ n = SampleLimit
                  /\ \A q \in 1..n : \E c \in 1..Len(candidates) : generated_pairs[q] = candidates[c]

SectionsReturned == batch_pc = "returned"

AllSectionsCollected == \A t \in DOMAIN fut : fut[t] = "collected"

PairsReturned == pair_pc = "returned"

AllPairsCollected == \A q \in DOMAIN pair_fut : pair_fut[q] = "collected"

\* C26: the pool is a barrier.  Once the section batch has returned (so that
\* validation and persistence may start) every section task has resolved and
\* its result was collected, none is queued or running; likewise, once the
\* pair batch has returned every pair task has resolved and was collected.
C26_PoolIsBarrier ==
    /\ SectionsReturned => AllSectionsCollected /\ Running = {} /\ Queued = {}
    /\ PairsReturned => AllPairsCollected /\ PairsRunning = {} /\ PairsQueued = {}

\* two section tasks on two workers, one failed and one extracted, returned
C26_Witness ==
    /\ SectionsReturned
    /\ Len(batch_sections) = 2 /\ workers = 2
    /\ Len(results) = 1 /\ failed_sections = <<batch_sections[1]>>

\* C27: when the reconciliation service fails, the reconciliation is tried
\* MatchMaxRetries times (with the fixed delay between the tries) and only
\* then does the segmentation fall back to the simple split.
C27_ReconciliationRetriedBeforeFallback ==
    (SplitDone /\ CallsService(lines) /\ llm_response.error) =>
        /\ match_calls = MatchMaxRetries
        /\ sections_data.method = "simple"

\* C28: after the section batch has returned, every input section is in
\* exactly one fragment of the result list or exactly once in
\* failed_sections, and never in both.
C28_EverySectionAccountedOnce ==
    BatchDone =>
        \A t \in DOMAIN batch_sections :
            FragmentsOf(batch_sections[t]) + FailuresOf(batch_sections[t]) = 1

\* what the calls of section task t came to, whatever the schedule was:
\* process_single_section returns the first non-empty analysis, or failure
\* after max_retries calls without one
Extracted(t) == future_result[t].success /\ future_result[t].analysis = "ok"

GaveUp(t) == ~future_result[t].success

\* C29: the set of fragments and the set of failed section numbers that the
\* batch returns are determined by the sections and by what each section's
\* calls returned; the pool width and the order in which the tasks ran and
\* were collected do not enter.
C29_ResultSetsIndependentOfSchedule ==
    BatchDone =>
        /\ {results[i].section_num : i \in 1..Len(results)}
              = {batch_sections[t] : t \in {u \in DOMAIN batch_sections : Extracted(u)}}
        /\ {failed_sections[i] : i \in 1..Len(failed_sections)}
              = {batch_sections[t] : t \in {u \in DOMAIN batch_sections : GaveUp(u)}}
        /\ \A t \in DOMAIN batch_sections :
              GaveUp(t) <=> (attempts[t] = MaxRetries /\ future_result[t] = NoResult)

\* two sections on two workers, collected against the order of submission:
\* the second section's fragment precedes the first's
C29_Witness ==
    /\ BatchDone
    /\ workers = 2
    /\ Len(batch_sections) = 2
    /\ Extracted(1) /\ Extracted(2)
    /\ Len(results) = 2
    /\ results[1].section_num = batch_sections[2]

SynthesizedTypes == {"hierarchical", "main_to_sub"}

\* the keys on which an edge synthesized inside a section and an original
\* edge of a fragment collide in the list _fuse_graphs built
CollidingKeys ==
    {EdgeKey(Fused.edges[i]) : i \in {j \in 1..Len(Fused.edges) :
        /\ Fused.edges[j].edge_type \in SynthesizedTypes
        /\ \E o \in 1..Len(Fused.edges) :
              /\ Fused.edges[o].edge_type = "intra_section"
              /\ EdgeKey(Fused.edges[o]) = EdgeKey(Fused.edges[j])}}

\* the one edge of the unified graph with this key is a synthesized one
SynthesizedSurvives(key) ==
    /\ Cardinality({e \in 1..Len(unified_kg.edges) : EdgeKey(unified_kg.edges[e]) = key}) = 1
    /\ \A e \in 1..Len(unified_kg.edges) :
          EdgeKey(unified_kg.edges[e]) = key =>
              unified_kg.edges[e].edge_type \in SynthesizedTypes

\* no edge of the main-logic graph has this key
NotInOutline(key) ==
    \A m \in 1..Len(main_logic_kg.edges) : EdgeKey(main_logic_kg.edges[m]) # key

\* C30, as stated: where a synthesized intra-section edge and an original
\* edge of a fragment have the same (source, target, relationship), the one
\* edge with that key in the unified graph is the synthesized one (edge_type
\* hierarchical or main_to_sub); the original, with its weight and evidence,
\* is dropped.
C30_SynthesizedEdgeSurvivesCollision ==
    (FuseDone /\ unified_kg.produced) =>
        \A key \in CollidingKeys : SynthesizedSurvives(key)

\* C30, amended: the same, for the keys that no edge of the main-logic graph
\* has; the main-logic edges are appended before the synthesized ones, and
\* an edge of theirs with the key survives instead.
C30_SynthesizedEdgeSurvivesSectionCollision ==
    (FuseDone /\ unified_kg.produced) =>
        \A key \in CollidingKeys : NotInOutline(key) => SynthesizedSurvives(key)

\* a fragment whose own edge has the key of an edge synthesized for it,
\* fused with a main-logic graph that has an edge but none of this key
C30_Witness ==
    /\ FuseDone /\ unified_kg.produced
    /\ main_logic_kg.edges # <<>>
    /\ \E key \in CollidingKeys : NotInOutline(key) /\ SynthesizedSurvives(key)

====
